---- MODULE Spec2Model ----
(***************************************************************************)
(* A model of the mini-mart market-data core: the SPSC ring                *)
(* (include/common/spsc_ring.hpp), the security store                      *)
(* (include/market_data/security_store.hpp) and the feed                   *)
(* (include/market_data/market_data_feed.hpp) with the provider it is      *)
(* wired to (include/market_data/random_market_data_provider.hpp), and    *)
(* the pure functions of Price (include/types/price.hpp) and of            *)
(* SecuritySeeder (include/market_data/security_seeder.hpp).               *)
(*                                                                         *)
(* Threads interleave at the granularity of one atomic load, store or      *)
(* read-modify-write, and of one element of a non-atomic array copy.       *)
(***************************************************************************)
EXTENDS Integers, Sequences, FiniteSets, TLC

(***************************************************************************)
(* Bounds of the model.                                                    *)
(***************************************************************************)
\* log2 of the ring capacity N (N must be a power of two)
RingBits == 1
\* number of try_push calls the producer makes in the ring specification
MaxPush == 4
\* number of size() calls the monitoring thread makes
MaxMonitor == 1
\* number of slots of the store (256 in the source)
MAX_SECURITIES == 2
\* number of distinct security ids the callers use
NumIds == 2
\* number of calls each thread of the store makes
MaxCalls == 2
\* number of update_from_l2 calls the writer makes beside a reader
MaxUpdates == 1
\* number of get_security_snapshot calls a reader makes beside the writer
MaxSnapshots == 1
\* number of calls the owner of the feed makes
MaxCtl == 3
\* number of passes over its slots the provider's thread makes
MaxPasses == 1
\* number of times the consumer finds the ring empty before it sleeps until
\* the ring holds something
MaxEmptyPolls == 1
\* number of calls the caller of the store makes when it makes one at a time
MaxSeqCalls == 3

\* the longest symbol converted to a security id, in bytes
MaxSymbol == 9

\* the width of a Price's raw value, in bits (64 in the source)
PriceBits == 4

\* the threads calling the store
Threads == {"t1", "t2", "writer", "reader"}

(***************************************************************************)
(* SpscRing<T, N>                                                          *)
(***************************************************************************)
VARIABLES
  head,      \* std::atomic<size_t> head
  tail,      \* std::atomic<size_t> tail
  buffer,    \* the N slots of storage, NoElem when no live T is in the slot
  prod,      \* the producer thread: position and locals of try_push
  cons,      \* the consumer thread: position and locals of try_pop
  mon,       \* a monitoring thread calling size()
  pushed,    \* history: values accepted by successful try_push, in order
  popped     \* history: values returned by successful try_pop, in order

ringVars == <<head, tail, buffer, prod, cons, mon, pushed, popped>>

(***************************************************************************)
(* SecurityStore                                                           *)
(***************************************************************************)
VARIABLES
  securities_,    \* std::array<SecurityData, MAX_SECURITIES> securities_
  active_count_,  \* std::atomic<size_t> active_count_
  thr,            \* the threads calling the store: position and locals
  issued,         \* history: the messages update_from_l2 was called with, in order
  last            \* the most recent call of a caller that makes one call at a
                  \* time: its arguments and results, and the store before it

storeVars == <<securities_, active_count_, thr, issued, last>>

(***************************************************************************)
(* MarketDataFeed and the RandomMarketDataProvider it is wired to          *)
(***************************************************************************)
VARIABLES
  running_,   \* MarketDataFeed::running_
  stats_,     \* MarketDataFeed::stats_, one field per atomic counter
  provider_,  \* the provider: its running_ flag and its slot table
  ctl,        \* the thread that owns the feed: position and locals
  pthr,       \* market_data_thread_ of the provider, the ring's producer
  cthr,       \* consumer_thread_ of the feed, the ring's consumer; its
              \* fields applied and worst are history: the updates the
              \* store applied for it, and the largest latency it
              \* computed, since the statistics were last reset
  clock,      \* what get_current_time_ns() returns next; every reading is
              \* later than the one before
  handled     \* history: callbacks that found the feed running since the
              \* statistics were last reset

feedVars == <<running_, stats_, provider_, ctl, pthr, cthr, clock, handled>>

(***************************************************************************)
(* Price, SecuritySeeder and the provider's level quantities               *)
(***************************************************************************)
VARIABLE
  calc        \* a pure function under evaluation: arguments and results

vars == <<ringVars, storeVars, feedVars, calc>>

\* no pure function is being evaluated
NoCalc == [fn |-> "none"]


\* a slot of storage, or a local, that holds no live T
NoElem == [live |-> FALSE]

capacity == 2 ^ RingBits
mask == capacity - 1

\* i & mask for a mask of the form 2^k - 1
BitAndMask(i) == i % (mask + 1)

RingInit ==
  /\ head = 0
  /\ tail = 0
  /\ buffer = [i \in 0 .. capacity - 1 |-> NoElem]
  /\ prod = [pc |-> "idle", head |-> 0, tail |-> 0, val |-> NoElem,
             ret |-> FALSE, calls |-> 0]
  /\ cons = [pc |-> "idle", head |-> 0, tail |-> 0, out |-> NoElem,
             ret |-> FALSE]
  /\ mon = [pc |-> "idle", head |-> 0, size |-> 0, calls |-> 0]
  /\ pushed = << >>
  /\ popped = << >>

(* emplace_impl, one step per memory access ------------------------------ *)

\* the producer enters try_push(v)
PushCall(v) ==
  /\ prod.pc = "idle"
  /\ prod' = [prod EXCEPT !.pc = "push_load_head", !.val = v,
                          !.calls = @ + 1]

\* const size_t head = this->head.load(relaxed)
PushLoadHead ==
  /\ prod.pc = "push_load_head"
  /\ prod' = [prod EXCEPT !.pc = "push_load_tail", !.head = head]
  /\ UNCHANGED <<calc, head, tail, buffer, cons, mon, pushed, popped, storeVars, feedVars>>

\* a full test that is off by one, letting the producer lap the consumer
PushIsFullOffByOne(t, h) == (t - h) = capacity + 1

\* a full test that never reports a full ring
PushIsFullNever(t, h) == FALSE

\* the guard of emplace_impl: (tail - head) == capacity
PushIsFull(t, h) == (t - h) = capacity

\* const size_t tail = this->tail.load(relaxed); if full return false
PushLoadTail ==
  /\ prod.pc = "push_load_tail"
  /\ prod' = [prod EXCEPT !.tail = tail,
                !.pc = IF PushIsFull(tail, prod.head) THEN "push_ret"
                       ELSE "push_construct",
                !.ret = ~PushIsFull(tail, prod.head)]
  /\ UNCHANGED <<calc, head, tail, buffer, cons, mon, pushed, popped, storeVars, feedVars>>

\* index of the slot the producer constructs into
PushSlot(t) == BitAndMask(t)

\* ::new (buffer_at(tail & mask)) T(args)
PushConstruct ==
  /\ prod.pc = "push_construct"
  /\ buffer' = [buffer EXCEPT ![PushSlot(prod.tail)] = prod.val]
  /\ prod' = [prod EXCEPT !.pc = "push_store_tail"]
  /\ UNCHANGED <<calc, head, tail, cons, mon, pushed, popped, storeVars, feedVars>>

\* the value the producer publishes as the new tail
PushNewTail(t) == t + 1

\* this->tail.store(tail + 1, release)
PushStoreTail ==
  /\ prod.pc = "push_store_tail"
  /\ tail' = PushNewTail(prod.tail)
  /\ pushed' = Append(pushed, prod.val)
  /\ prod' = [prod EXCEPT !.pc = "push_ret"]
  /\ UNCHANGED <<calc, head, buffer, cons, mon, popped, storeVars, feedVars>>

(* try_pop, one step per memory access ----------------------------------- *)

\* const size_t head = this->head.load(relaxed)
PopLoadHead ==
  /\ cons.pc = "pop_load_head"
  /\ cons' = [cons EXCEPT !.pc = "pop_load_tail", !.head = head]
  /\ UNCHANGED <<calc, head, tail, buffer, prod, mon, pushed, popped, storeVars, feedVars>>

\* an empty test written as an ordering test instead of an equality
PopIsEmptyGreater(h, t) == h > t

\* an empty test that never reports an empty ring
PopIsEmptyNever(h, t) == FALSE

\* the guard of try_pop: head == tail
PopIsEmpty(h, t) == h = t

\* const size_t tail = this->tail.load(acquire); if empty return false
PopLoadTail ==
  /\ cons.pc = "pop_load_tail"
  /\ cons' = [cons EXCEPT !.tail = tail,
                !.pc = IF PopIsEmpty(cons.head, tail) THEN "pop_ret"
                       ELSE "pop_move",
                !.ret = ~PopIsEmpty(cons.head, tail)]
  /\ UNCHANGED <<calc, head, tail, buffer, prod, mon, pushed, popped, storeVars, feedVars>>

\* index of the slot the consumer reads
PopSlot(h) == BitAndMask(h)

\* out = std::move(*elem)
PopMove ==
  /\ cons.pc = "pop_move"
  /\ cons' = [cons EXCEPT !.pc = "pop_destroy",
                          !.out = buffer[PopSlot(cons.head)]]
  /\ UNCHANGED <<calc, head, tail, buffer, prod, mon, pushed, popped, storeVars, feedVars>>

\* elem->~T()
PopDestroy ==
  /\ cons.pc = "pop_destroy"
  /\ buffer' = [buffer EXCEPT ![PopSlot(cons.head)] = NoElem]
  /\ cons' = [cons EXCEPT !.pc = "pop_store_head"]
  /\ UNCHANGED <<calc, head, tail, prod, mon, pushed, popped, storeVars, feedVars>>

\* the value the consumer publishes as the new head
PopNewHead(h) == h + 1

\* this->head.store(head + 1, release)
PopStoreHead ==
  /\ cons.pc = "pop_store_head"
  /\ head' = PopNewHead(cons.head)
  /\ popped' = Append(popped, cons.out)
  /\ cons' = [cons EXCEPT !.pc = "pop_ret"]
  /\ UNCHANGED <<calc, tail, buffer, prod, mon, pushed, storeVars, feedVars>>

(* size(), called from a thread that is neither producer nor consumer ---- *)

\* const size_t head = this->head.load(relaxed)
SizeLoadHead ==
  /\ mon.pc = "idle"
  /\ mon.calls < MaxMonitor
  /\ mon' = [mon EXCEPT !.pc = "size_load_tail", !.head = head,
                        !.calls = @ + 1]
  /\ UNCHANGED <<calc, head, tail, buffer, prod, cons, pushed, popped, storeVars, feedVars>>

\* const size_t tail = this->tail.load(relaxed); return tail - head
SizeLoadTail ==
  /\ mon.pc = "size_load_tail"
  /\ mon' = [mon EXCEPT !.pc = "size_ret", !.size = tail - mon.head]
  /\ UNCHANGED <<calc, head, tail, buffer, prod, cons, pushed, popped, storeVars, feedVars>>

\* the caller takes the result and may call again
SizeReturn ==
  /\ mon.pc = "size_ret"
  /\ mon' = [mon EXCEPT !.pc = "idle"]
  /\ UNCHANGED <<calc, head, tail, buffer, prod, cons, pushed, popped, storeVars, feedVars>>

(* The ring on its own: SpscRingTest.ProducerConsumer -------------------- *)

\* the producer thread of the test calls try_push with a fresh value
RingProducerCall ==
  /\ prod.calls < MaxPush
  /\ PushCall(prod.calls + 1)
  /\ UNCHANGED <<calc, head, tail, buffer, cons, mon, pushed, popped, storeVars, feedVars>>

RingProducerReturn ==
  /\ prod.pc = "push_ret"
  /\ prod' = [prod EXCEPT !.pc = "idle"]
  /\ UNCHANGED <<calc, head, tail, buffer, cons, mon, pushed, popped, storeVars, feedVars>>

RingConsumerCall ==
  /\ cons.pc = "idle"
  /\ cons' = [cons EXCEPT !.pc = "pop_load_head"]
  /\ UNCHANGED <<calc, head, tail, buffer, prod, mon, pushed, popped, storeVars, feedVars>>

RingConsumerReturn ==
  /\ cons.pc = "pop_ret"
  /\ cons' = [cons EXCEPT !.pc = "idle"]
  /\ UNCHANGED <<calc, head, tail, buffer, prod, mon, pushed, popped, storeVars, feedVars>>

RingNext ==
  \/ RingProducerCall
  \/ PushLoadHead
  \/ PushLoadTail
  \/ PushConstruct
  \/ PushStoreTail
  \/ RingProducerReturn
  \/ RingConsumerCall
  \/ PopLoadHead
  \/ PopLoadTail
  \/ PopMove
  \/ PopDestroy
  \/ PopStoreHead
  \/ RingConsumerReturn
  \/ SizeLoadHead
  \/ SizeLoadTail
  \/ SizeReturn


(***************************************************************************)
(* SecurityStore: data                                                     *)
(***************************************************************************)

\* PriceLevel levels[5] of an OrderBookSide, std::array<PriceLevel, 5> of a
\* message
LEVELS == 5

LevelIdx == 0 .. LEVELS - 1

\* PriceLevel{}
ZeroLevel == [price |-> 0, quantity |-> 0]

\* SecurityId{}: eight NUL bytes
NoId == 0

\* the securities of the model: "AAPL", "MSFT", ...
Ids == 1 .. NumIds

Slots == 0 .. MAX_SECURITIES - 1

\* nullptr, as find_security_data returns it
Null == -1

\* OrderBookSide as constructed
EmptySide == [num_levels |-> 0, levels |-> [k \in LevelIdx |-> ZeroLevel]]

\* SecurityData as constructed
EmptySlot ==
  [active |-> FALSE, security_id |-> NoId, best_bid |-> 0, best_ask |-> 0,
   last_trade_price |-> 0, last_update_ns |-> 0, bids |-> EmptySide,
   asks |-> EmptySide, update_count |-> 0, total_volume |-> 0]

\* a MarketDataL2Message the way the tests build one (create_test_message):
\* nb bid levels descending from bid, na ask levels ascending from ask, the
\* entries beyond them zero
TestMessage(id, ts, bid, ask, nb, na) ==
  [security_id |-> id, timestamp_ns |-> ts,
   bids |-> [k \in LevelIdx |->
               IF k < nb THEN [price |-> bid - k, quantity |-> 10 * bid + k]
               ELSE ZeroLevel],
   asks |-> [k \in LevelIdx |->
               IF k < na THEN [price |-> ask + k, quantity |-> 10 * ask + k]
               ELSE ZeroLevel],
   num_bid_levels |-> nb, num_ask_levels |-> na]

\* no message: a call that takes none, or a local not yet assigned
NoMsg == [security_id |-> NoId]

\* SecuritySnapshot before anything was copied into it
NoSnapshot ==
  [security_id |-> NoId, best_bid |-> 0, best_ask |-> 0,
   last_trade_price |-> 0, last_update_ns |-> 0,
   num_bid_levels |-> 0, num_ask_levels |-> 0,
   bids |-> [k \in LevelIdx |-> ZeroLevel],
   asks |-> [k \in LevelIdx |-> ZeroLevel],
   update_count |-> 0, total_volume |-> 0]

\* a thread that is in no call
IdleThread(calls) ==
  [pc |-> "idle", op |-> "none", id |-> NoId, i |-> 0, data |-> Null,
   msg |-> NoMsg, snapshot |-> NoSnapshot, side |-> "bids", k |-> 0,
   all |-> << >>, ret |-> FALSE, calls |-> calls]

\* the ids a caller that makes one call at a time uses: one more than the store has slots
SeqIds == 1 .. MAX_SECURITIES + 1

\* such a caller before its first call
NoCall ==
  [op |-> "none", id |-> NoId, msg |-> NoMsg, ret |-> FALSE,
   snapshot |-> NoSnapshot, size |-> 0, all |-> << >>,
   before |-> [i \in Slots |-> EmptySlot], count_before |-> 0, calls |-> 0,
   applied |-> [id \in SeqIds |-> << >>]]

StoreInit ==
  /\ securities_ = [i \in Slots |-> EmptySlot]
  /\ active_count_ = 0
  /\ thr = [t \in Threads |-> IdleThread(0)]
  /\ issued = << >>
  /\ last = NoCall

(***************************************************************************)
(* SecurityStore: the operations run to completion (one caller at a time)  *)
(***************************************************************************)

\* a match on the id alone, whatever the active flag says
MatchesStale(slot, id) == slot.security_id = id

\* SecurityData::matches
Matches(slot, id) == slot.active /\ slot.security_id = id

\* find_security_data: the first matching slot, or nullptr
FindSecurityData(st, id) ==
  IF \E i \in Slots : Matches(st[i], id)
  THEN CHOOSE i \in Slots :
         /\ Matches(st[i], id)
         /\ \A j \in Slots : j < i => ~Matches(st[j], id)
  ELSE Null

\* SecurityData::initialize: the id, the atomics reset, then active = true
\* (the level arrays are left as they are)
Initialize(slot, id) ==
  [slot EXCEPT !.security_id = id, !.best_bid = 0, !.best_ask = 0,
               !.last_trade_price = 0, !.last_update_ns = 0,
               !.update_count = 0, !.total_volume = 0,
               !.bids.num_levels = 0, !.asks.num_levels = 0,
               !.active = TRUE]

\* a search that passes over slots that held a security before
FirstNeverUsed(st) ==
  IF \E i \in Slots : ~st[i].active /\ st[i].security_id = NoId
  THEN CHOOSE i \in Slots :
         /\ ~st[i].active /\ st[i].security_id = NoId
         /\ \A j \in Slots :
              j < i => (st[j].active \/ st[j].security_id # NoId)
  ELSE Null

\* the slot add_security claims: the first one whose active flag is false
FirstInactive(st) ==
  IF \E i \in Slots : ~st[i].active
  THEN CHOOSE i \in Slots :
         ~st[i].active /\ \A j \in Slots : j < i => st[j].active
  ELSE Null

\* an add_security that does not look for the id first
AddSecurityRetUnchecked(st, id) == FirstInactive(st) # Null

\* add_security, its result
AddSecurityRet(st, id) ==
  FindSecurityData(st, id) = Null /\ FirstInactive(st) # Null

\* add_security, the slots after it
AddSecurity(st, id) ==
  IF AddSecurityRet(st, id)
  THEN [st EXCEPT ![FirstInactive(st)] = Initialize(@, id)]
  ELSE st

\* remove_security, its result
RemoveSecurityRet(st, id) == FindSecurityData(st, id) # Null

\* a remove_security that leaves the active flag set
RemoveSecurityKeeps(st, id) == st

\* remove_security, the slots after it
RemoveSecurity(st, id) ==
  IF RemoveSecurityRet(st, id)
  THEN [st EXCEPT ![FindSecurityData(st, id)].active = FALSE]
  ELSE st

\* a copy count that trusts the message
CopyCountUnclamped(num_levels) == num_levels

\* std::min(num_levels, static_cast<uint8_t>(5))
CopyCount(num_levels) == IF num_levels < LEVELS THEN num_levels ELSE LEVELS

\* an update that copies the message's entries and clears none
SideLevelNoClear(levels, num_levels, k) == levels[k]

\* update_order_book_side: entry k of the side after it
SideLevel(levels, num_levels, k) ==
  IF k < CopyCount(num_levels) THEN levels[k] ELSE ZeroLevel

\* update_order_book_side
UpdateOrderBookSide(levels, num_levels) ==
  [num_levels |-> CopyCount(num_levels),
   levels |-> [k \in LevelIdx |-> SideLevel(levels, num_levels, k)]]

\* a writer that stores the best ask price as the best bid
BestBidOfAsks(m) == m.asks[0].price

\* the price update_from_l2 stores as best_bid
BestBidOf(m) == m.bids[0].price

\* a writer that stores the best bid price as the best ask
BestAskOfBids(m) == m.bids[0].price

\* the price update_from_l2 stores as best_ask
BestAskOf(m) == m.asks[0].price

\* update_from_l2, its result
UpdateFromL2Ret(st, m) == FindSecurityData(st, m.security_id) # Null

\* update_from_l2, the slots after it
UpdateFromL2(st, m) ==
  IF UpdateFromL2Ret(st, m)
  THEN [st EXCEPT ![FindSecurityData(st, m.security_id)] =
         [@ EXCEPT
            !.last_update_ns = m.timestamp_ns,
            !.best_bid = IF m.num_bid_levels > 0 THEN BestBidOf(m) ELSE @,
            !.best_ask = IF m.num_ask_levels > 0 THEN BestAskOf(m) ELSE @,
            !.bids = UpdateOrderBookSide(m.bids, m.num_bid_levels),
            !.asks = UpdateOrderBookSide(m.asks, m.num_ask_levels),
            !.update_count = @ + 1]]
  ELSE st

(***************************************************************************)
(* SecurityStore: the operations one memory access at a time               *)
(***************************************************************************)

\* thread t becomes r, nothing else of the store changes
Local(t, r) ==
  /\ thr' = [thr EXCEPT ![t] = r]
  /\ UNCHANGED <<calc, securities_, active_count_, issued, last, ringVars, feedVars>>

\* thread t becomes r and slot i becomes s
Write(t, r, i, s) ==
  /\ thr' = [thr EXCEPT ![t] = r]
  /\ securities_' = [securities_ EXCEPT ![i] = s]
  /\ UNCHANGED <<calc, active_count_, issued, last, ringVars, feedVars>>

\* the call returns b
Ret(r, b) == [r EXCEPT !.pc = "ret", !.ret = b]

\* where each operation goes on once find_security_data returned d
FindDone(r, d) ==
  CASE r.op = "add" ->
         IF d # Null THEN Ret(r, FALSE)
         ELSE [r EXCEPT !.pc = "add_cas", !.i = 0]
    [] r.op = "remove" ->
         IF d = Null THEN Ret(r, FALSE)
         ELSE [r EXCEPT !.pc = "remove_deactivate", !.data = d]
    [] r.op = "update" ->
         IF d = Null THEN Ret(r, FALSE)
         ELSE [r EXCEPT !.pc = "upd_timestamp", !.data = d]
    [] r.op = "snapshot" ->
         IF d = Null THEN Ret(r, FALSE)
         ELSE [r EXCEPT !.pc = "snap_id", !.data = d]
    [] OTHER -> Ret(r, d # Null)

\* find_security_data goes on to the next slot, or returns nullptr
FindAdvance(r) ==
  IF r.i + 1 < MAX_SECURITIES THEN [r EXCEPT !.pc = "find_active", !.i = @ + 1]
  ELSE FindDone(r, Null)

\* matches(): active.load(acquire) &&
FindLoadActive(t) ==
  /\ thr[t].pc = "find_active"
  /\ Local(t, IF securities_[thr[t].i].active
              THEN [thr[t] EXCEPT !.pc = "find_id"]
              ELSE FindAdvance(thr[t]))

\* matches(): (security_id == id)
FindCompareId(t) ==
  /\ thr[t].pc = "find_id"
  /\ Local(t, IF securities_[thr[t].i].security_id = thr[t].id
              THEN FindDone(thr[t], thr[t].i)
              ELSE FindAdvance(thr[t]))

\* a call that begins with find_security_data(id)
Call(t, op, id, m) ==
  /\ thr[t].pc = "idle"
  /\ thr' = [thr EXCEPT ![t] = [@ EXCEPT !.pc = "find_active", !.op = op,
                                        !.id = id, !.i = 0, !.msg = m,
                                        !.calls = @ + 1]]

(* add_security ---------------------------------------------------------- *)

AddCall(t, id) ==
  /\ Call(t, "add", id, NoMsg)
  /\ UNCHANGED <<calc, securities_, active_count_, issued, last, ringVars, feedVars>>

\* compare_exchange_strong(expected = false, desired): whether it succeeds
CasSucceeds(active) == active = FALSE

\* the value the compare-exchange of add_security stores on success
CasDesired == FALSE

\* slot.active.compare_exchange_strong(expected, false, acquire)
AddCas(t) ==
  /\ thr[t].pc = "add_cas"
  /\ LET i == thr[t].i IN
     IF CasSucceeds(securities_[i].active)
     THEN Write(t, [thr[t] EXCEPT !.pc = "init_id", !.data = i],
                i, [securities_[i] EXCEPT !.active = CasDesired])
     ELSE Local(t, IF i + 1 < MAX_SECURITIES THEN [thr[t] EXCEPT !.i = i + 1]
                   ELSE Ret(thr[t], FALSE))

\* initialize: security_id = id
InitId(t) ==
  /\ thr[t].pc = "init_id"
  /\ Write(t, [thr[t] EXCEPT !.pc = "init_reset", !.k = 0],
           thr[t].data, [securities_[thr[t].data] EXCEPT
                           !.security_id = thr[t].id])

\* the atomics initialize resets, in the order it stores them
ResetFields == 8

\* initialize: the k-th relaxed store of 0
ResetField(slot, k) ==
  CASE k = 0 -> [slot EXCEPT !.best_bid = 0]
    [] k = 1 -> [slot EXCEPT !.best_ask = 0]
    [] k = 2 -> [slot EXCEPT !.last_trade_price = 0]
    [] k = 3 -> [slot EXCEPT !.last_update_ns = 0]
    [] k = 4 -> [slot EXCEPT !.update_count = 0]
    [] k = 5 -> [slot EXCEPT !.total_volume = 0]
    [] k = 6 -> [slot EXCEPT !.bids.num_levels = 0]
    [] OTHER -> [slot EXCEPT !.asks.num_levels = 0]

\* initialize: best_bid.store(0, relaxed) ... asks.num_levels.store(0, relaxed)
InitReset(t) ==
  /\ thr[t].pc = "init_reset"
  /\ Write(t, IF thr[t].k + 1 < ResetFields THEN [thr[t] EXCEPT !.k = @ + 1]
              ELSE [thr[t] EXCEPT !.pc = "init_activate", !.k = 0],
           thr[t].data, ResetField(securities_[thr[t].data], thr[t].k))

\* initialize: active.store(true, release)
InitActivate(t) ==
  /\ thr[t].pc = "init_activate"
  /\ Write(t, [thr[t] EXCEPT !.pc = "add_count"],
           thr[t].data, [securities_[thr[t].data] EXCEPT !.active = TRUE])

\* active_count_.fetch_add(1, relaxed); return true
AddCount(t) ==
  /\ thr[t].pc = "add_count"
  /\ active_count_' = active_count_ + 1
  /\ thr' = [thr EXCEPT ![t] = Ret(@, TRUE)]
  /\ UNCHANGED <<calc, securities_, issued, last, ringVars, feedVars>>

(* remove_security ------------------------------------------------------- *)

RemoveCall(t, id) ==
  /\ Call(t, "remove", id, NoMsg)
  /\ UNCHANGED <<calc, securities_, active_count_, issued, last, ringVars, feedVars>>

\* data->deactivate(): active.store(false, release)
RemoveDeactivate(t) ==
  /\ thr[t].pc = "remove_deactivate"
  /\ Write(t, [thr[t] EXCEPT !.pc = "remove_count"],
           thr[t].data, [securities_[thr[t].data] EXCEPT !.active = FALSE])

\* active_count_.fetch_sub(1, relaxed); return true
\* (a negative count stands for its value modulo 2^64)
RemoveCount(t) ==
  /\ thr[t].pc = "remove_count"
  /\ active_count_' = active_count_ - 1
  /\ thr' = [thr EXCEPT ![t] = Ret(@, TRUE)]
  /\ UNCHANGED <<calc, securities_, issued, last, ringVars, feedVars>>

(* clear ----------------------------------------------------------------- *)

ClearCall(t) ==
  /\ thr[t].pc = "idle"
  /\ Local(t, [thr[t] EXCEPT !.pc = "clear_deactivate", !.op = "clear",
                             !.i = 0, !.calls = @ + 1])

\* securities_[i].deactivate()
ClearDeactivate(t) ==
  /\ thr[t].pc = "clear_deactivate"
  /\ LET i == thr[t].i IN
     Write(t, IF i + 1 < MAX_SECURITIES THEN [thr[t] EXCEPT !.i = i + 1]
              ELSE [thr[t] EXCEPT !.pc = "clear_count"],
           i, [securities_[i] EXCEPT !.active = FALSE])

\* active_count_.store(0, relaxed)
ClearCount(t) ==
  /\ thr[t].pc = "clear_count"
  /\ active_count_' = 0
  /\ thr' = [thr EXCEPT ![t] = Ret(@, TRUE)]
  /\ UNCHANGED <<calc, securities_, issued, last, ringVars, feedVars>>

(* update_from_l2 -------------------------------------------------------- *)

\* the single writer calls update_from_l2(m)
UpdateCall(t, m) ==
  /\ Call(t, "update", m.security_id, m)
  /\ issued' = Append(issued, m)
  /\ UNCHANGED <<calc, securities_, active_count_, last, ringVars, feedVars>>

\* update_from_l2 goes on to update_order_book_side(data->bids, ...)
ToBids(r) == [r EXCEPT !.pc = "upd_level", !.side = "bids", !.k = 0]

\* update_from_l2 after the best bid: if (message.num_ask_levels > 0)
ToBestAsk(r) ==
  IF r.msg.num_ask_levels > 0 THEN [r EXCEPT !.pc = "upd_best_ask"]
  ELSE ToBids(r)

\* update_from_l2 after the timestamp: if (message.num_bid_levels > 0)
ToBestBid(r) ==
  IF r.msg.num_bid_levels > 0 THEN [r EXCEPT !.pc = "upd_best_bid"]
  ELSE ToBestAsk(r)

\* data->last_update_ns.store(message.timestamp_ns, release)
UpdTimestamp(t) ==
  /\ thr[t].pc = "upd_timestamp"
  /\ Write(t, ToBestBid(thr[t]), thr[t].data,
           [securities_[thr[t].data] EXCEPT
              !.last_update_ns = thr[t].msg.timestamp_ns])

\* data->best_bid.store(message.bids[0].price, relaxed)
UpdBestBid(t) ==
  /\ thr[t].pc = "upd_best_bid"
  /\ Write(t, ToBestAsk(thr[t]), thr[t].data,
           [securities_[thr[t].data] EXCEPT !.best_bid = BestBidOf(thr[t].msg)])

\* data->best_ask.store(message.asks[0].price, relaxed)
UpdBestAsk(t) ==
  /\ thr[t].pc = "upd_best_ask"
  /\ Write(t, ToBids(thr[t]), thr[t].data,
           [securities_[thr[t].data] EXCEPT !.best_ask = BestAskOf(thr[t].msg)])

\* the levels and the count of the side of the message being applied
MsgLevels(r) == IF r.side = "bids" THEN r.msg.bids ELSE r.msg.asks
MsgNumLevels(r) ==
  IF r.side = "bids" THEN r.msg.num_bid_levels ELSE r.msg.num_ask_levels

\* update_order_book_side: entry k of side.levels, written by the memcpy
\* (k < copy_count) or by the clearing loop
UpdLevel(t) ==
  /\ thr[t].pc = "upd_level"
  /\ LET r == thr[t]
         v == SideLevel(MsgLevels(r), MsgNumLevels(r), r.k)
         n == IF r.k + 1 < LEVELS THEN [r EXCEPT !.k = @ + 1]
              ELSE [r EXCEPT !.pc = "upd_num", !.k = 0]
     IN Write(t, n, r.data,
              IF r.side = "bids"
              THEN [securities_[r.data] EXCEPT !.bids.levels[r.k] = v]
              ELSE [securities_[r.data] EXCEPT !.asks.levels[r.k] = v])

\* update_order_book_side: side.num_levels.store(copy_count, release)
UpdNumLevels(t) ==
  /\ thr[t].pc = "upd_num"
  /\ LET r == thr[t]
         c == CopyCount(MsgNumLevels(r))
     IN IF r.side = "bids"
        THEN Write(t, [r EXCEPT !.pc = "upd_level", !.side = "asks", !.k = 0],
                   r.data, [securities_[r.data] EXCEPT !.bids.num_levels = c])
        ELSE Write(t, [r EXCEPT !.pc = "upd_count", !.side = "bids"],
                   r.data, [securities_[r.data] EXCEPT !.asks.num_levels = c])

\* data->update_count.fetch_add(1, relaxed); return true
UpdCount(t) ==
  /\ thr[t].pc = "upd_count"
  /\ Write(t, Ret(thr[t], TRUE), thr[t].data,
           [securities_[thr[t].data] EXCEPT !.update_count = @ + 1])

(* get_security_snapshot ------------------------------------------------- *)

SnapshotCall(t, id) ==
  /\ Call(t, "snapshot", id, NoMsg)
  /\ UNCHANGED <<calc, securities_, active_count_, issued, last, ringVars, feedVars>>

\* the scalar fields get_security_snapshot copies, in the order it loads them
SnapFields == 9

\* get_security_snapshot: the k-th scalar copied from the slot
SnapField(snap, slot, k) ==
  CASE k = 0 -> [snap EXCEPT !.security_id = slot.security_id]
    [] k = 1 -> [snap EXCEPT !.last_update_ns = slot.last_update_ns]
    [] k = 2 -> [snap EXCEPT !.best_bid = slot.best_bid]
    [] k = 3 -> [snap EXCEPT !.best_ask = slot.best_ask]
    [] k = 4 -> [snap EXCEPT !.last_trade_price = slot.last_trade_price]
    [] k = 5 -> [snap EXCEPT !.update_count = slot.update_count]
    [] k = 6 -> [snap EXCEPT !.total_volume = slot.total_volume]
    [] k = 7 -> [snap EXCEPT !.num_bid_levels = slot.bids.num_levels]
    [] OTHER -> [snap EXCEPT !.num_ask_levels = slot.asks.num_levels]

\* snapshot.security_id = data->security_id ... snapshot.num_ask_levels =
\* data->asks.num_levels.load(relaxed)
SnapLoad(t) ==
  /\ thr[t].pc = "snap_id"
  /\ LET r == thr[t]
         s == SnapField(r.snapshot, securities_[r.data], r.k)
     IN Local(t, IF r.k + 1 < SnapFields
                 THEN [r EXCEPT !.snapshot = s, !.k = @ + 1]
                 ELSE [r EXCEPT !.snapshot = s, !.pc = "snap_level",
                                !.side = "bids", !.k = 0])

\* std::memcpy(snapshot.bids, data->bids.levels, ...) and the same for the
\* asks, one PriceLevel at a time
SnapLevel(t) ==
  /\ thr[t].pc = "snap_level"
  /\ LET r == thr[t]
         s == IF r.side = "bids"
              THEN [r.snapshot EXCEPT
                      !.bids[r.k] = securities_[r.data].bids.levels[r.k]]
              ELSE [r.snapshot EXCEPT
                      !.asks[r.k] = securities_[r.data].asks.levels[r.k]]
     IN Local(t, IF r.k + 1 < LEVELS
                 THEN [r EXCEPT !.snapshot = s, !.k = @ + 1]
                 ELSE IF r.side = "bids"
                 THEN [r EXCEPT !.snapshot = s, !.side = "asks", !.k = 0]
                 ELSE [Ret(r, TRUE) EXCEPT !.snapshot = s, !.side = "bids",
                                           !.k = 0])

(* get_all_securities ---------------------------------------------------- *)

\* std::vector<SecurityId> result; result.reserve(active_count_.load())
GetAllCall(t) ==
  /\ thr[t].pc = "idle"
  /\ Local(t, [thr[t] EXCEPT !.pc = "all_active", !.op = "get_all",
                             !.i = 0, !.all = << >>, !.calls = @ + 1])

\* a listing that takes the id of every slot, active or not
AllAdvanceAnyway(r, active) == [r EXCEPT !.pc = "all_id"]

\* the loop of get_all_securities after slot.active.load(acquire): on to
\* the push_back, to the next slot, or to the return
AllAdvance(r, active) ==
  IF active THEN [r EXCEPT !.pc = "all_id"]
  ELSE IF r.i + 1 < MAX_SECURITIES THEN [r EXCEPT !.i = @ + 1]
  ELSE Ret(r, TRUE)

\* if (slot.active.load(acquire))
AllLoadActive(t) ==
  /\ thr[t].pc = "all_active"
  /\ Local(t, AllAdvance(thr[t], securities_[thr[t].i].active))

\* result.push_back(slot.security_id)
AllPushId(t) ==
  /\ thr[t].pc = "all_id"
  /\ LET r == [thr[t] EXCEPT
                 !.all = Append(@, securities_[thr[t].i].security_id)]
     IN Local(t, IF r.i + 1 < MAX_SECURITIES
                 THEN [r EXCEPT !.pc = "all_active", !.i = @ + 1]
                 ELSE Ret(r, TRUE))

\* the reader goes on to get_security_snapshot(id, snapshot) for an id of
\* the vector it was returned
SnapshotListed(t) ==
  /\ thr[t].pc = "ret"
  /\ thr[t].op = "get_all"
  /\ \E n \in 1 .. Len(thr[t].all) :
       Local(t, [thr[t] EXCEPT !.pc = "find_active", !.op = "snapshot",
                               !.id = thr[t].all[n], !.i = 0,
                               !.calls = @ + 1])

(* every call ------------------------------------------------------------ *)

\* the caller has the result; its locals go out of scope
Return(t) ==
  /\ thr[t].pc = "ret"
  /\ Local(t, IdleThread(thr[t].calls))

(***************************************************************************)
(* SecurityStore: a caller that makes one call at a time                   *)
(***************************************************************************)

\* a message whose five entries a side are all filled, whatever its counts
\* say: nb and na are any uint8_t
RawMessage(id, ts, bid, ask, nb, na) ==
  [TestMessage(id, ts, bid, ask, LEVELS, LEVELS) EXCEPT
     !.num_bid_levels = nb, !.num_ask_levels = na]

\* the books the caller applies: best bid, best ask, num_bid_levels,
\* num_ask_levels
SeqBooks == {<<10, 20, 7, 1>>, <<30, 40, 2, 0>>, <<50, 60, 0, 2>>}

\* the call op(id, m) returned ret: what the caller knows after it. applied
\* is the history of the messages update_from_l2 returned true for, for each
\* id since add_security last returned true for it.
Done(op, id, m, ret) ==
  [last EXCEPT
     !.op = op, !.id = id, !.msg = m, !.ret = ret, !.snapshot = NoSnapshot,
     !.size = 0, !.all = << >>, !.before = securities_,
     !.count_before = active_count_, !.calls = @ + 1,
     !.applied = IF op = "add" /\ ret THEN [@ EXCEPT ![id] = << >>]
                 ELSE IF op = "update" /\ ret
                      THEN [@ EXCEPT ![id] = Append(@, m)]
                      ELSE @]

\* contains
Contains(st, id) == FindSecurityData(st, id) # Null

\* clear: every slot deactivated
Clear(st) == [i \in Slots |-> [st[i] EXCEPT !.active = FALSE]]

\* get_security_snapshot, what it copies out of the slot
SnapshotOf(slot) ==
  [security_id |-> slot.security_id, best_bid |-> slot.best_bid,
   best_ask |-> slot.best_ask, last_trade_price |-> slot.last_trade_price,
   last_update_ns |-> slot.last_update_ns,
   num_bid_levels |-> slot.bids.num_levels,
   num_ask_levels |-> slot.asks.num_levels,
   bids |-> slot.bids.levels, asks |-> slot.asks.levels,
   update_count |-> slot.update_count, total_volume |-> slot.total_volume]

\* get_security_snapshot, the caller's snapshot after it
GetSecuritySnapshot(st, id) ==
  IF FindSecurityData(st, id) = Null THEN NoSnapshot
  ELSE SnapshotOf(st[FindSecurityData(st, id)])

RECURSIVE AllIncludingInactive(_, _)
\* a scan that forgets to test the active flag
AllIncludingInactive(st, i) ==
  IF i = MAX_SECURITIES THEN << >>
  ELSE <<st[i].security_id>> \o AllIncludingInactive(st, i + 1)

RECURSIVE AllFrom(_, _)
\* the loop of get_all_securities from slot i on
AllFrom(st, i) ==
  IF i = MAX_SECURITIES THEN << >>
  ELSE (IF st[i].active THEN <<st[i].security_id>> ELSE << >>)
         \o AllFrom(st, i + 1)

\* get_all_securities
GetAllSecurities(st) == AllFrom(st, 0)

\* the caller may call again
MayCall == last.calls < MaxSeqCalls

SeqAdd(id) ==
  /\ MayCall
  /\ securities_' = AddSecurity(securities_, id)
  /\ active_count_' = IF AddSecurityRet(securities_, id)
                      THEN active_count_ + 1 ELSE active_count_
  /\ last' = Done("add", id, NoMsg, AddSecurityRet(securities_, id))
  /\ UNCHANGED <<calc, thr, issued, ringVars, feedVars>>

SeqRemove(id) ==
  /\ MayCall
  /\ securities_' = RemoveSecurity(securities_, id)
  /\ active_count_' = IF RemoveSecurityRet(securities_, id)
                      THEN active_count_ - 1 ELSE active_count_
  /\ last' = Done("remove", id, NoMsg, RemoveSecurityRet(securities_, id))
  /\ UNCHANGED <<calc, thr, issued, ringVars, feedVars>>

SeqClear ==
  /\ MayCall
  /\ securities_' = Clear(securities_)
  /\ active_count_' = 0
  /\ last' = Done("clear", NoId, NoMsg, TRUE)
  /\ UNCHANGED <<calc, thr, issued, ringVars, feedVars>>

SeqUpdate(m) ==
  /\ MayCall
  /\ securities_' = UpdateFromL2(securities_, m)
  /\ issued' = Append(issued, m)
  /\ last' = Done("update", m.security_id, m, UpdateFromL2Ret(securities_, m))
  /\ UNCHANGED <<calc, active_count_, thr, ringVars, feedVars>>

SeqSnapshot(id) ==
  /\ MayCall
  /\ last' = [Done("snapshot", id, NoMsg, Contains(securities_, id)) EXCEPT
                !.snapshot = GetSecuritySnapshot(securities_, id)]
  /\ UNCHANGED <<calc, securities_, active_count_, thr, issued, ringVars, feedVars>>

SeqContains(id) ==
  /\ MayCall
  /\ last' = Done("contains", id, NoMsg, Contains(securities_, id))
  /\ UNCHANGED <<calc, securities_, active_count_, thr, issued, ringVars, feedVars>>

SeqSize ==
  /\ MayCall
  /\ last' = [Done("size", NoId, NoMsg, TRUE) EXCEPT !.size = active_count_]
  /\ UNCHANGED <<calc, securities_, active_count_, thr, issued, ringVars, feedVars>>

SeqGetAll ==
  /\ MayCall
  /\ last' = [Done("get_all", NoId, NoMsg, TRUE) EXCEPT
                !.all = GetAllSecurities(securities_)]
  /\ UNCHANGED <<calc, securities_, active_count_, thr, issued, ringVars, feedVars>>

(***************************************************************************)
(* MarketDataFeed: data                                                    *)
(***************************************************************************)

\* Config::enable_statistics as Config() sets it
EnableStatistics == TRUE

\* Config::consumer_yield_us as Config() sets it
consumer_yield_us == 1

\* Config::messages_per_burst of the provider as main() sets it
messages_per_burst == 3

\* the security the owner of a running feed subscribes ("AAPL")
FeedId == 1

\* Statistics as constructed, and after Statistics::reset
ZeroStatistics ==
  [messages_produced |-> 0, messages_consumed |-> 0, ring_full_events |-> 0,
   ring_empty_events |-> 0, consumer_yields |-> 0, total_latency_ns |-> 0,
   max_latency_ns |-> 0]

\* SecuritySlot of the provider as constructed (the price state left out)
EmptyProviderSlot == [active |-> FALSE, security_id |-> NoId]

\* the control thread in no call
IdleControl(calls) ==
  [pc |-> "idle", op |-> "none", id |-> NoId, ret |-> FALSE, calls |-> calls,
   store_before |-> {}, provider_before |-> {}, store_ret |-> FALSE,
   provider_called |-> FALSE, provider_ret |-> FALSE]

\* the ids a slot table holds: the security_id of its active slots
Members(st) == {st[i].security_id : i \in {j \in Slots : st[j].active}}

\* slot.current_price after n steps of the provider's generator
PriceAt(n) == 50 + n

\* create_l2_message: five bid levels descending below the mid price, five
\* ask levels ascending above it
CreateL2Message(id, ts, mid) ==
  [security_id |-> id, timestamp_ns |-> ts,
   bids |-> [k \in LevelIdx |-> [price |-> mid - 1 - k, quantity |-> 100 + k]],
   asks |-> [k \in LevelIdx |-> [price |-> mid + 1 + k, quantity |-> 100 + k]],
   num_bid_levels |-> LEVELS, num_ask_levels |-> LEVELS]

FeedInit ==
  /\ running_ = FALSE
  /\ stats_ = ZeroStatistics
  /\ provider_ = [running_ |-> FALSE,
                  securities_ |-> [i \in Slots |-> EmptyProviderSlot]]
  /\ ctl = IdleControl(0)
  /\ pthr = [pc |-> "off", i |-> 0, burst |-> 0, msg |-> NoMsg, passes |-> 0,
             generated |-> 0]
  /\ cthr = [pc |-> "off", latency |-> 0, current_max |-> 0, applied |-> 0,
             worst |-> 0]
  /\ clock = 1
  /\ handled = 0

(* RandomMarketDataProvider: subscriptions, one caller at a time --------- *)

\* find_security_slot
FindSecuritySlot(ps, id) == FindSecurityData(ps, id)

\* RandomMarketDataProvider::subscribe, its result
ProviderSubscribeRet(ps, id) ==
  FindSecuritySlot(ps, id) = Null /\ FirstInactive(ps) # Null

\* RandomMarketDataProvider::subscribe, the slots after it
ProviderSubscribe(ps, id) ==
  IF ProviderSubscribeRet(ps, id)
  THEN [ps EXCEPT ![FirstInactive(ps)] =
         [active |-> TRUE, security_id |-> id]]
  ELSE ps

\* RandomMarketDataProvider::unsubscribe, its result
ProviderUnsubscribeRet(ps, id) == FindSecuritySlot(ps, id) # Null

\* an unsubscribe that reports success and leaves the slot active
ProviderUnsubscribeKeeps(ps, id) == ps

\* RandomMarketDataProvider::unsubscribe, the slots after it
ProviderUnsubscribe(ps, id) ==
  IF ProviderUnsubscribeRet(ps, id)
  THEN [ps EXCEPT ![FindSecuritySlot(ps, id)].active = FALSE]
  ELSE ps

(***************************************************************************)
(* MarketDataFeed: the owner's calls, one step per call into a collaborator *)
(***************************************************************************)

\* the owner enters a call of the feed
Enter(op, id) ==
  /\ ctl.pc = "idle"
  /\ ctl.calls < MaxCtl
  /\ ctl' = [IdleControl(ctl.calls + 1) EXCEPT
               !.pc = op, !.op = op, !.id = id,
               !.store_before = Members(securities_),
               !.provider_before = Members(provider_.securities_)]

\* the call returns b
Leave(b) == [ctl EXCEPT !.pc = "ret", !.ret = b]

\* the owner takes the result and may call again
CtlReturn ==
  /\ ctl.pc = "ret"
  /\ ctl' = [ctl EXCEPT !.pc = "idle"]
  /\ UNCHANGED <<calc, ringVars, storeVars, running_, stats_, provider_, pthr,
                 cthr, clock, handled>>

(* start ----------------------------------------------------------------- *)

StartCall ==
  /\ Enter("start", NoId)
  /\ UNCHANGED <<calc, ringVars, storeVars, running_, stats_, provider_, pthr,
                 cthr, clock, handled>>

\* a start that does not look at running_
StartCheckIgnoresRunning ==
  /\ ctl.pc = "start"
  /\ ctl' = [ctl EXCEPT !.pc = "start_reset"]
  /\ UNCHANGED <<calc, ringVars, storeVars, running_, stats_, provider_, pthr,
                 cthr, clock, handled>>

\* if (running_.load(acquire)) return false
StartCheck ==
  /\ ctl.pc = "start"
  /\ ctl' = IF running_ THEN Leave(FALSE)
            ELSE [ctl EXCEPT !.pc = "start_reset"]
  /\ UNCHANGED <<calc, ringVars, storeVars, running_, stats_, provider_, pthr,
                 cthr, clock, handled>>

\* if (config_.enable_statistics) stats_.reset()
StartReset ==
  /\ ctl.pc = "start_reset"
  /\ stats_' = IF EnableStatistics THEN ZeroStatistics ELSE stats_
  /\ handled' = IF EnableStatistics THEN 0 ELSE handled
  /\ cthr' = IF EnableStatistics
             THEN [cthr EXCEPT !.applied = 0, !.worst = 0] ELSE cthr
  /\ ctl' = [ctl EXCEPT !.pc = "start_provider"]
  /\ UNCHANGED <<calc, ringVars, storeVars, running_, provider_, pthr, clock>>

\* if (!provider_->start()) return false; the provider's start refuses when
\* it is running, else sets its flag and spawns market_data_thread
StartProvider ==
  /\ ctl.pc = "start_provider"
  /\ IF provider_.running_
     THEN /\ ctl' = Leave(FALSE)
          /\ UNCHANGED <<provider_, pthr>>
     ELSE /\ provider_' = [provider_ EXCEPT !.running_ = TRUE]
          /\ pthr' = [pthr EXCEPT !.pc = "loop"]
          /\ ctl' = [ctl EXCEPT !.pc = "start_store"]
  /\ UNCHANGED <<calc, ringVars, storeVars, running_, stats_, cthr, clock, handled>>

\* running_.store(true, release)
StartStore ==
  /\ ctl.pc = "start_store"
  /\ running_' = TRUE
  /\ ctl' = [ctl EXCEPT !.pc = "start_spawn"]
  /\ UNCHANGED <<calc, ringVars, storeVars, stats_, provider_, pthr, cthr, clock,
                 handled>>

\* consumer_thread_ = std::thread(consumer_thread_func); return true
StartSpawn ==
  /\ ctl.pc = "start_spawn"
  /\ cthr' = [cthr EXCEPT !.pc = "c_check"]
  /\ ctl' = Leave(TRUE)
  /\ UNCHANGED <<calc, ringVars, storeVars, running_, stats_, provider_, pthr,
                 clock, handled>>

(* stop ------------------------------------------------------------------ *)

StopCall ==
  /\ Enter("stop", NoId)
  /\ UNCHANGED <<calc, ringVars, storeVars, running_, stats_, provider_, pthr,
                 cthr, clock, handled>>

\* if (!running_.load(acquire)) return
StopCheck ==
  /\ ctl.pc = "stop"
  /\ ctl' = IF ~running_ THEN Leave(FALSE)
            ELSE [ctl EXCEPT !.pc = "stop_store"]
  /\ UNCHANGED <<calc, ringVars, storeVars, running_, stats_, provider_, pthr,
                 cthr, clock, handled>>

\* running_.store(false, release)
StopStore ==
  /\ ctl.pc = "stop_store"
  /\ running_' = FALSE
  /\ ctl' = [ctl EXCEPT !.pc = "stop_provider"]
  /\ UNCHANGED <<calc, ringVars, storeVars, stats_, provider_, pthr, cthr, clock,
                 handled>>

\* provider_->stop() up to its join: nothing to do when the provider is not
\* running, else its flag is cleared
StopProvider ==
  /\ ctl.pc = "stop_provider"
  /\ IF ~provider_.running_
     THEN /\ ctl' = [ctl EXCEPT !.pc = "stop_join_consumer"]
          /\ UNCHANGED provider_
     ELSE /\ provider_' = [provider_ EXCEPT !.running_ = FALSE]
          /\ ctl' = [ctl EXCEPT !.pc = "stop_join_provider"]
  /\ UNCHANGED <<calc, ringVars, storeVars, running_, stats_, pthr, cthr, clock,
                 handled>>

\* a stop that goes on without waiting for the provider's thread
StopLeavesProviderThread ==
  /\ ctl.pc = "stop_join_provider"
  /\ ctl' = [ctl EXCEPT !.pc = "stop_join_consumer"]
  /\ UNCHANGED <<calc, ringVars, storeVars, running_, stats_, provider_, pthr,
                 cthr, clock, handled>>

\* market_data_thread_.join() returns once the thread has left its loop
StopJoinProvider ==
  /\ ctl.pc = "stop_join_provider"
  /\ pthr.pc \in {"off", "exited"}
  /\ pthr' = [pthr EXCEPT !.pc = "off"]
  /\ ctl' = [ctl EXCEPT !.pc = "stop_join_consumer"]
  /\ UNCHANGED <<calc, ringVars, storeVars, running_, stats_, provider_, cthr,
                 clock, handled>>

\* a stop that returns without waiting for the consumer thread
StopWithoutJoin ==
  /\ ctl.pc = "stop_join_consumer"
  /\ ctl' = Leave(TRUE)
  /\ UNCHANGED <<calc, ringVars, storeVars, running_, stats_, provider_, pthr,
                 cthr, clock, handled>>

\* if (consumer_thread_.joinable()) consumer_thread_.join()
StopJoinConsumer ==
  /\ ctl.pc = "stop_join_consumer"
  /\ cthr.pc \in {"off", "c_done"}
  /\ cthr' = [cthr EXCEPT !.pc = "off"]
  /\ ctl' = Leave(TRUE)
  /\ UNCHANGED <<calc, ringVars, storeVars, running_, stats_, provider_, pthr,
                 clock, handled>>

(* subscribe ------------------------------------------------------------- *)

SubscribeCall(id) ==
  /\ Enter("subscribe", id)
  /\ UNCHANGED <<calc, ringVars, storeVars, running_, stats_, provider_, pthr,
                 cthr, clock, handled>>

\* if (!store_->add_security(security_id)) return false
SubscribeAdd ==
  /\ ctl.pc = "subscribe"
  /\ securities_' = AddSecurity(securities_, ctl.id)
  /\ active_count_' = IF AddSecurityRet(securities_, ctl.id)
                      THEN active_count_ + 1 ELSE active_count_
  /\ ctl' = IF AddSecurityRet(securities_, ctl.id)
            THEN [ctl EXCEPT !.pc = "subscribe_provider", !.store_ret = TRUE]
            ELSE Leave(FALSE)
  /\ UNCHANGED <<calc, ringVars, thr, issued, last, running_, stats_, provider_, pthr,
                 cthr, clock, handled>>

\* if (!provider_->subscribe(security_id)) ... else return true
SubscribeProvider ==
  /\ ctl.pc = "subscribe_provider"
  /\ provider_' = [provider_ EXCEPT
                     !.securities_ = ProviderSubscribe(@, ctl.id)]
  /\ ctl' = IF ProviderSubscribeRet(provider_.securities_, ctl.id)
            THEN [Leave(TRUE) EXCEPT !.provider_called = TRUE,
                                     !.provider_ret = TRUE]
            ELSE [ctl EXCEPT !.pc = "subscribe_rollback",
                             !.provider_called = TRUE]
  /\ UNCHANGED <<calc, ringVars, storeVars, running_, stats_, pthr, cthr, clock,
                 handled>>

\* a feed that leaves the security in the store when the provider refuses
NoRollback(st, id) == st

\* the rollback of subscribe: store_->remove_security(security_id)
Rollback(st, id) == RemoveSecurity(st, id)

\* store_->remove_security(security_id); return false
SubscribeRollback ==
  /\ ctl.pc = "subscribe_rollback"
  /\ securities_' = Rollback(securities_, ctl.id)
  /\ active_count_' = IF RemoveSecurityRet(securities_, ctl.id)
                      THEN active_count_ - 1 ELSE active_count_
  /\ ctl' = Leave(FALSE)
  /\ UNCHANGED <<calc, ringVars, thr, issued, last, running_, stats_, provider_, pthr,
                 cthr, clock, handled>>

(* unsubscribe ----------------------------------------------------------- *)

UnsubscribeCall(id) ==
  /\ Enter("unsubscribe", id)
  /\ UNCHANGED <<calc, ringVars, storeVars, running_, stats_, provider_, pthr,
                 cthr, clock, handled>>

\* bool provider_result = provider_->unsubscribe(security_id)
UnsubscribeProvider ==
  /\ ctl.pc = "unsubscribe"
  /\ provider_' = [provider_ EXCEPT
                     !.securities_ = ProviderUnsubscribe(@, ctl.id)]
  /\ ctl' = [ctl EXCEPT
               !.pc = "unsubscribe_store", !.provider_called = TRUE,
               !.provider_ret =
                  ProviderUnsubscribeRet(provider_.securities_, ctl.id)]
  /\ UNCHANGED <<calc, ringVars, storeVars, running_, stats_, pthr, cthr, clock,
                 handled>>

\* an unsubscribe that skips the store when the provider refused
UnsubscribeStoreShortCircuit ==
  /\ ctl.pc = "unsubscribe_store"
  /\ securities_' = IF ctl.provider_ret
                     THEN RemoveSecurity(securities_, ctl.id)
                     ELSE securities_
  /\ active_count_' = IF ctl.provider_ret
                           /\ RemoveSecurityRet(securities_, ctl.id)
                      THEN active_count_ - 1 ELSE active_count_
  /\ ctl' = [Leave(ctl.provider_ret /\ RemoveSecurityRet(securities_, ctl.id))
               EXCEPT !.store_ret = ctl.provider_ret
                                     /\ RemoveSecurityRet(securities_, ctl.id)]
  /\ UNCHANGED <<calc, ringVars, thr, issued, last, running_, stats_, provider_, pthr,
                 cthr, clock, handled>>

\* bool store_result = store_->remove_security(security_id);
\* return provider_result && store_result
UnsubscribeStore ==
  /\ ctl.pc = "unsubscribe_store"
  /\ securities_' = RemoveSecurity(securities_, ctl.id)
  /\ active_count_' = IF RemoveSecurityRet(securities_, ctl.id)
                      THEN active_count_ - 1 ELSE active_count_
  /\ ctl' = [Leave(ctl.provider_ret /\ RemoveSecurityRet(securities_, ctl.id))
               EXCEPT !.store_ret = RemoveSecurityRet(securities_, ctl.id)]
  /\ UNCHANGED <<calc, ringVars, thr, issued, last, running_, stats_, provider_, pthr,
                 cthr, clock, handled>>

(* the application subscribing at the provider it shares with the feed --- *)

DirectSubscribe(id) ==
  /\ ctl.pc = "idle"
  /\ ctl.calls < MaxCtl
  /\ ctl' = IdleControl(ctl.calls + 1)
  /\ provider_' = [provider_ EXCEPT
                     !.securities_ = ProviderSubscribe(@, id)]
  /\ UNCHANGED <<calc, ringVars, storeVars, running_, stats_, pthr, cthr, clock,
                 handled>>

\* the application unsubscribing at that provider
DirectUnsubscribe(id) ==
  /\ ctl.pc = "idle"
  /\ ctl.calls < MaxCtl
  /\ ctl' = IdleControl(ctl.calls + 1)
  /\ provider_' = [provider_ EXCEPT
                     !.securities_ = ProviderUnsubscribe(@, id)]
  /\ UNCHANGED <<calc, ringVars, storeVars, running_, stats_, pthr, cthr, clock,
                 handled>>

(* the application starting and stopping that provider ------------------- *)

ProviderStartCall ==
  /\ Enter("p_start", NoId)
  /\ UNCHANGED <<calc, ringVars, storeVars, running_, stats_, provider_, pthr,
                 cthr, clock, handled>>

\* RandomMarketDataProvider::start: if (running_.load()) return false;
\* running_.store(true); the thread is spawned; return true
ProviderStart ==
  /\ ctl.pc = "p_start"
  /\ IF provider_.running_
     THEN /\ ctl' = Leave(FALSE)
          /\ UNCHANGED <<provider_, pthr>>
     ELSE /\ provider_' = [provider_ EXCEPT !.running_ = TRUE]
          /\ pthr' = [pthr EXCEPT !.pc = "loop"]
          /\ ctl' = Leave(TRUE)
  /\ UNCHANGED <<calc, ringVars, storeVars, running_, stats_, cthr, clock, handled>>

ProviderStopCall ==
  /\ Enter("p_stop", NoId)
  /\ UNCHANGED <<calc, ringVars, storeVars, running_, stats_, provider_, pthr,
                 cthr, clock, handled>>

\* RandomMarketDataProvider::stop: if (!running_.load()) return;
\* running_.store(false)
ProviderStop ==
  /\ ctl.pc = "p_stop"
  /\ IF ~provider_.running_
     THEN /\ ctl' = Leave(FALSE)
          /\ UNCHANGED provider_
     ELSE /\ provider_' = [provider_ EXCEPT !.running_ = FALSE]
          /\ ctl' = [ctl EXCEPT !.pc = "p_stop_join"]
  /\ UNCHANGED <<calc, ringVars, storeVars, running_, stats_, pthr, cthr, clock,
                 handled>>

\* a stop that returns without joining the thread
ProviderStopNoJoin ==
  /\ ctl.pc = "p_stop_join"
  /\ ctl' = Leave(TRUE)
  /\ UNCHANGED <<calc, ringVars, storeVars, running_, stats_, provider_, pthr,
                 cthr, clock, handled>>

\* if (market_data_thread_.joinable()) market_data_thread_.join()
ProviderStopJoin ==
  /\ ctl.pc = "p_stop_join"
  /\ pthr.pc \in {"off", "exited"}
  /\ pthr' = [pthr EXCEPT !.pc = "off"]
  /\ ctl' = Leave(TRUE)
  /\ UNCHANGED <<calc, ringVars, storeVars, running_, stats_, provider_, cthr,
                 clock, handled>>

(***************************************************************************)
(* The provider's thread and the feed's callback on it (the producer)      *)
(***************************************************************************)

\* while (running_.load()): a pass over the slots, or the end of the thread
ProviderLoop ==
  /\ pthr.pc = "loop"
  /\ provider_.running_ => pthr.passes < MaxPasses
  /\ pthr' = IF provider_.running_
             THEN [pthr EXCEPT !.pc = "scan", !.i = 0, !.passes = @ + 1]
             ELSE [pthr EXCEPT !.pc = "exited"]
  /\ UNCHANGED <<calc, ringVars, storeVars, running_, stats_, provider_, ctl, cthr,
                 clock, handled>>

\* for (i < MAX_SECURITIES): if (slot.active.load(acquire)) a burst for it
ProviderScan ==
  /\ pthr.pc = "scan"
  /\ pthr' = IF pthr.i = MAX_SECURITIES THEN [pthr EXCEPT !.pc = "loop"]
             ELSE IF provider_.securities_[pthr.i].active
                  THEN [pthr EXCEPT !.pc = "generate", !.burst = 0]
                  ELSE [pthr EXCEPT !.i = @ + 1]
  /\ UNCHANGED <<calc, ringVars, storeVars, running_, stats_, provider_, ctl, cthr,
                 clock, handled>>

\* for (burst < total_bursts) generate_market_data_for_security: the message
\* is built from the slot's id and price and handed to the callback
ProviderGenerate ==
  /\ pthr.pc = "generate"
  /\ \/ /\ pthr.burst = messages_per_burst
        /\ pthr' = [pthr EXCEPT !.pc = "scan", !.i = @ + 1]
        /\ UNCHANGED clock
     \/ /\ pthr.burst < messages_per_burst
        /\ pthr' = [pthr EXCEPT
                     !.pc = "callback", !.burst = @ + 1,
                     !.generated = @ + 1,
                     !.msg = CreateL2Message(
                               provider_.securities_[pthr.i].security_id,
                               clock, PriceAt(pthr.generated + 1))]
        /\ clock' = clock + 1
  /\ UNCHANGED <<calc, ringVars, storeVars, running_, stats_, provider_, ctl, cthr,
                 handled>>

\* timestamped_message: the message with the feed's own time on it
Timestamped(m, now) ==
  IF EnableStatistics THEN [m EXCEPT !.timestamp_ns = now] ELSE m

\* on_market_data_received: if (!running_.load(acquire)) return; else the
\* message is stamped and try_push is entered
CallbackCheck ==
  /\ pthr.pc = "callback"
  /\ IF ~running_
     THEN /\ pthr' = [pthr EXCEPT !.pc = "generate"]
          /\ UNCHANGED <<prod, handled, clock>>
     ELSE /\ PushCall(Timestamped(pthr.msg, clock))
          /\ clock' = IF EnableStatistics THEN clock + 1 ELSE clock
          /\ handled' = handled + 1
          /\ pthr' = [pthr EXCEPT !.pc = "callback_push"]
  /\ UNCHANGED <<calc, head, tail, buffer, cons, mon, pushed, popped, storeVars,
                 running_, stats_, provider_, ctl, cthr>>

\* a callback that counts accepted messages only
CountPushAcceptedOnly(s, ok) ==
  IF ok THEN [s EXCEPT !.messages_produced = @ + 1] ELSE s

\* the counter on_market_data_received bumps for the result of try_push
CountPush(s, ok) ==
  IF ~EnableStatistics THEN s
  ELSE IF ok THEN [s EXCEPT !.messages_produced = @ + 1]
       ELSE [s EXCEPT !.ring_full_events = @ + 1]

\* try_push has returned: one fetch_add, and the callback returns
CallbackCount ==
  /\ pthr.pc = "callback_push"
  /\ prod.pc = "push_ret"
  /\ stats_' = CountPush(stats_, prod.ret)
  /\ prod' = [prod EXCEPT !.pc = "idle"]
  /\ pthr' = [pthr EXCEPT !.pc = "generate"]
  /\ UNCHANGED <<calc, head, tail, buffer, cons, mon, pushed, popped, storeVars,
                 running_, provider_, ctl, cthr, clock, handled>>

(***************************************************************************)
(* consumer_thread_func (the consumer)                                     *)
(***************************************************************************)

\* a consumer loop that goes on polling whatever running_ says
ConsumerLoopIgnoresStop ==
  /\ cthr.pc = "c_check"
  /\ stats_.ring_empty_events < MaxEmptyPolls \/ head # tail
  /\ cons' = [cons EXCEPT !.pc = "pop_load_head"]
  /\ cthr' = [cthr EXCEPT !.pc = "c_pop"]
  /\ UNCHANGED <<calc, head, tail, buffer, prod, mon, pushed, popped, storeVars,
                 running_, stats_, provider_, ctl, pthr, clock, handled>>

\* while (running_.load(acquire)): try_pop is entered, or the thread ends.
\* The sleeps of an idle consumer are counted up to MaxEmptyPolls; past
\* that it sleeps until the ring holds something.
ConsumerLoop ==
  /\ cthr.pc = "c_check"
  /\ running_ => (stats_.ring_empty_events < MaxEmptyPolls \/ head # tail)
  /\ IF running_
     THEN /\ cons' = [cons EXCEPT !.pc = "pop_load_head"]
          /\ cthr' = [cthr EXCEPT !.pc = "c_pop"]
     ELSE /\ cthr' = [cthr EXCEPT !.pc = "c_done"]
          /\ UNCHANGED cons
  /\ UNCHANGED <<calc, head, tail, buffer, prod, mon, pushed, popped, storeVars,
                 running_, stats_, provider_, ctl, pthr, clock, handled>>

\* a consumer that counts every message it popped
AfterUpdateCountsAll(updated) ==
  IF EnableStatistics THEN "c_consumed" ELSE "c_check"

\* if (config_.enable_statistics && updated): on to the statistics, or back
\* to the top of the loop
AfterUpdate(updated) ==
  IF EnableStatistics /\ updated THEN "c_consumed" ELSE "c_check"

\* bool updated = store_->update_from_l2(message)
ConsumerUpdate ==
  /\ cthr.pc = "c_pop"
  /\ cons.pc = "pop_ret"
  /\ cons.ret
  /\ securities_' = UpdateFromL2(securities_, cons.out)
  /\ issued' = Append(issued, cons.out)
  /\ cons' = [cons EXCEPT !.pc = "idle"]
  /\ cthr' = [cthr EXCEPT
                !.pc = AfterUpdate(UpdateFromL2Ret(securities_, cons.out)),
                !.applied = IF UpdateFromL2Ret(securities_, cons.out)
                            THEN @ + 1 ELSE @]
  /\ UNCHANGED <<calc, head, tail, buffer, prod, mon, pushed, popped,
                 active_count_, thr, last, running_, stats_, provider_, ctl,
                 pthr, clock, handled>>

\* stats_.messages_consumed.fetch_add(1)
ConsumerCount ==
  /\ cthr.pc = "c_consumed"
  /\ stats_' = [stats_ EXCEPT !.messages_consumed = @ + 1]
  /\ cthr' = [cthr EXCEPT !.pc = "c_latency"]
  /\ UNCHANGED <<calc, ringVars, storeVars, running_, provider_, ctl, pthr, clock,
                 handled>>

\* latency = get_current_time_ns() - message.timestamp_ns;
\* stats_.total_latency_ns.fetch_add(latency)
ConsumerLatency ==
  /\ cthr.pc = "c_latency"
  /\ stats_' = [stats_ EXCEPT
                  !.total_latency_ns = @ + (clock - cons.out.timestamp_ns)]
  /\ cthr' = [cthr EXCEPT !.pc = "c_max_load",
                          !.latency = clock - cons.out.timestamp_ns,
                          !.worst = IF clock - cons.out.timestamp_ns > @
                                    THEN clock - cons.out.timestamp_ns ELSE @]
  /\ clock' = clock + 1
  /\ UNCHANGED <<calc, ringVars, storeVars, running_, provider_, ctl, pthr,
                 handled>>

\* uint64_t current_max = stats_.max_latency_ns.load(relaxed)
ConsumerMaxLoad ==
  /\ cthr.pc = "c_max_load"
  /\ cthr' = [cthr EXCEPT !.pc = "c_max_cas",
                          !.current_max = stats_.max_latency_ns]
  /\ UNCHANGED <<calc, ringVars, storeVars, running_, stats_, provider_, ctl, pthr,
                 clock, handled>>

\* an update of the maximum that stores the latest latency whatever it is
ConsumerMaxCasOverwrites ==
  /\ cthr.pc = "c_max_cas"
  /\ stats_' = [stats_ EXCEPT !.max_latency_ns = cthr.latency]
  /\ cthr' = [cthr EXCEPT !.pc = "c_check"]
  /\ UNCHANGED <<calc, ringVars, storeVars, running_, provider_, ctl, pthr, clock,
                 handled>>

\* while (latency > current_max) if (compare_exchange_weak(current_max,
\* latency)) break
ConsumerMaxCas ==
  /\ cthr.pc = "c_max_cas"
  /\ IF cthr.latency <= cthr.current_max
     THEN /\ cthr' = [cthr EXCEPT !.pc = "c_check"]
          /\ UNCHANGED stats_
     ELSE IF stats_.max_latency_ns = cthr.current_max
          THEN /\ stats_' = [stats_ EXCEPT !.max_latency_ns = cthr.latency]
               /\ cthr' = [cthr EXCEPT !.pc = "c_check"]
          ELSE /\ cthr' = [cthr EXCEPT !.current_max = stats_.max_latency_ns]
               /\ UNCHANGED stats_
  /\ UNCHANGED <<calc, ringVars, storeVars, running_, provider_, ctl, pthr, clock,
                 handled>>

\* a consumer that leaves its loop the first time it finds the ring empty
ConsumerEmptyGivesUp ==
  /\ cthr.pc = "c_pop"
  /\ cons.pc = "pop_ret"
  /\ ~cons.ret
  /\ stats_' = IF EnableStatistics
               THEN [stats_ EXCEPT !.ring_empty_events = @ + 1] ELSE stats_
  /\ cons' = [cons EXCEPT !.pc = "idle"]
  /\ cthr' = [cthr EXCEPT !.pc = "c_done"]
  /\ UNCHANGED <<calc, head, tail, buffer, prod, mon, pushed, popped, storeVars,
                 running_, provider_, ctl, pthr, clock, handled>>

\* try_pop found the ring empty: stats_.ring_empty_events.fetch_add(1)
ConsumerEmpty ==
  /\ cthr.pc = "c_pop"
  /\ cons.pc = "pop_ret"
  /\ ~cons.ret
  /\ stats_' = IF EnableStatistics
               THEN [stats_ EXCEPT !.ring_empty_events = @ + 1] ELSE stats_
  /\ cons' = [cons EXCEPT !.pc = "idle"]
  /\ cthr' = [cthr EXCEPT
                !.pc = IF consumer_yield_us > 0 THEN "c_sleep" ELSE "c_check"]
  /\ UNCHANGED <<calc, head, tail, buffer, prod, mon, pushed, popped, storeVars,
                 running_, provider_, ctl, pthr, clock, handled>>

\* sleep_for(consumer_yield_us); stats_.consumer_yields.fetch_add(1)
ConsumerYield ==
  /\ cthr.pc = "c_sleep"
  /\ stats_' = IF EnableStatistics
               THEN [stats_ EXCEPT !.consumer_yields = @ + 1] ELSE stats_
  /\ cthr' = [cthr EXCEPT !.pc = "c_check"]
  /\ UNCHANGED <<calc, ringVars, storeVars, running_, provider_, ctl, pthr, clock,
                 handled>>

(***************************************************************************)
(* MarketDataFeed::start called from more than one thread, one step per    *)
(* access to running_, to the provider and to the thread objects           *)
(***************************************************************************)

\* the threads that call start()
Callers == {"t1", "t2"}

\* caller t becomes r, the calls of the other threads stay where they are
Caller(t, r) == thr' = [thr EXCEPT ![t] = r]

\* std::terminate(): a std::thread that is joinable was assigned to, the
\* process ends with every call where it stands
Terminate == thr' = [t \in Threads |-> [thr[t] EXCEPT !.pc = "terminated"]]

\* thread t enters start()
RaceStartCall(t) ==
  /\ thr[t].pc = "idle"
  /\ thr[t].calls < MaxCalls
  /\ Caller(t, [thr[t] EXCEPT !.pc = "fs_check", !.op = "start",
                              !.calls = @ + 1])
  /\ UNCHANGED <<calc, securities_, active_count_, issued, last, ringVars,
                 feedVars>>

\* if (running_.load(acquire)) return false
RaceStartCheck(t) ==
  /\ thr[t].pc = "fs_check"
  /\ Caller(t, IF running_ THEN Ret(thr[t], FALSE)
               ELSE [thr[t] EXCEPT !.pc = "fs_reset"])
  /\ UNCHANGED <<calc, securities_, active_count_, issued, last, ringVars,
                 feedVars>>

\* if (config_.enable_statistics) stats_.reset()
RaceStartReset(t) ==
  /\ thr[t].pc = "fs_reset"
  /\ stats_' = IF EnableStatistics THEN ZeroStatistics ELSE stats_
  /\ Caller(t, [thr[t] EXCEPT !.pc = "ps_check"])
  /\ UNCHANGED <<calc, securities_, active_count_, issued, last, ringVars,
                 running_, provider_, ctl, pthr, cthr, clock, handled>>

\* provider_->start(): if (running_.load()) return false, and the feed's
\* start() returns false as well
RaceProviderCheck(t) ==
  /\ thr[t].pc = "ps_check"
  /\ Caller(t, IF provider_.running_ THEN Ret(thr[t], FALSE)
               ELSE [thr[t] EXCEPT !.pc = "ps_store"])
  /\ UNCHANGED <<calc, securities_, active_count_, issued, last, ringVars,
                 feedVars>>

\* provider_->start(): running_.store(true)
RaceProviderStore(t) ==
  /\ thr[t].pc = "ps_store"
  /\ provider_' = [provider_ EXCEPT !.running_ = TRUE]
  /\ Caller(t, [thr[t] EXCEPT !.pc = "ps_spawn"])
  /\ UNCHANGED <<calc, securities_, active_count_, issued, last, ringVars,
                 running_, stats_, ctl, pthr, cthr, clock, handled>>

\* provider_->start(): market_data_thread_ = std::thread(...); return true
RaceProviderSpawn(t) ==
  /\ thr[t].pc = "ps_spawn"
  /\ IF pthr.pc = "off"
     THEN /\ pthr' = [pthr EXCEPT !.pc = "loop"]
          /\ Caller(t, [thr[t] EXCEPT !.pc = "fs_store"])
     ELSE /\ Terminate
          /\ UNCHANGED pthr
  /\ UNCHANGED <<calc, securities_, active_count_, issued, last, ringVars,
                 running_, stats_, provider_, ctl, cthr, clock, handled>>

\* running_.store(true, release)
RaceStartStore(t) ==
  /\ thr[t].pc = "fs_store"
  /\ running_' = TRUE
  /\ Caller(t, [thr[t] EXCEPT !.pc = "fs_spawn"])
  /\ UNCHANGED <<calc, securities_, active_count_, issued, last, ringVars,
                 stats_, provider_, ctl, pthr, cthr, clock, handled>>

\* consumer_thread_ = std::thread(consumer_thread_func); return true
RaceStartSpawn(t) ==
  /\ thr[t].pc = "fs_spawn"
  /\ IF cthr.pc = "off"
     THEN /\ cthr' = [cthr EXCEPT !.pc = "c_check"]
          /\ Caller(t, Ret(thr[t], TRUE))
     ELSE /\ Terminate
          /\ UNCHANGED cthr
  /\ UNCHANGED <<calc, securities_, active_count_, issued, last, ringVars,
                 running_, stats_, provider_, ctl, pthr, clock, handled>>

(***************************************************************************)
(* RandomMarketDataProvider: the quantity of a level                       *)
(***************************************************************************)

\* message.bids[i].quantity = 100 + (qty_rng_state % 900): the offset
QuantityBase == 100

\* message.bids[i].quantity = 100 + (qty_rng_state % 900): the modulus
QuantitySpan == 900

\* Config{min_quantity, max_quantity}: the default and three other ranges
QuantityConfigs == {<<100, 1000>>, <<1, 50>>, <<500, 500>>, <<2000, 3000>>}

\* the quantity create_l2_message gives a level, from the state of its
\* generator
LevelQuantity(min_quantity, max_quantity, rng) ==
  QuantityBase + (rng % QuantitySpan)

\* a provider constructed with a configuration
QuantityInit ==
  \E c \in QuantityConfigs :
    calc = [fn |-> "config", min_quantity |-> c[1], max_quantity |-> c[2],
            quantity |-> 0]

\* create_l2_message fills one level; qty_rng_state, a 64-bit
\* linear-congruential state, is taken modulo QuantitySpan, and any residue
\* can come up
CreateLevel ==
  /\ calc.fn \in {"config", "level"}
  /\ \E rng \in 0 .. QuantitySpan - 1 :
       calc' = [calc EXCEPT
                  !.fn = "level",
                  !.quantity = LevelQuantity(calc.min_quantity,
                                             calc.max_quantity, rng)]
  /\ UNCHANGED <<ringVars, storeVars, feedVars>>

(***************************************************************************)
(* SecuritySeeder: symbols and security ids                                *)
(***************************************************************************)

\* static constexpr size_t MAX_SYMBOL_LENGTH = 8
MAX_SYMBOL_LENGTH == 8

\* the bytes symbols are made of: NUL, 'A' and 'B'
Bytes == {0, 65, 66}

\* the strings tried: every string of at most MaxSymbol bytes
Symbols == UNION {[1 .. n -> Bytes] : n \in 0 .. MaxSymbol}

\* std::min(symbol.length(), MAX_SYMBOL_LENGTH)
CopyLength(length) ==
  IF length < MAX_SYMBOL_LENGTH THEN length ELSE MAX_SYMBOL_LENGTH

\* create_security_id: the array filled with NUL, then the first
\* copy_length bytes of the symbol copied over it
CreateSecurityId(symbol) ==
  [i \in 1 .. MAX_SYMBOL_LENGTH |->
     IF i <= CopyLength(Len(symbol)) THEN symbol[i] ELSE 0]

\* a scan that takes the whole array
IdLengthWhole(id, i) == Len(id)

\* the loop of security_id_to_string from index i on: the length is that
\* of the bytes before the first NUL, or of the whole array
RECURSIVE IdLength(_, _)
IdLength(id, i) ==
  IF i > Len(id) THEN Len(id)
  ELSE IF id[i] = 0 THEN i - 1
  ELSE IdLength(id, i + 1)

\* security_id_to_string: std::string(security_id.data(), length)
SecurityIdToString(id) == SubSeq(id, 1, IdLength(id, 1))

\* a symbol about to be converted
SeederInit ==
  \E s \in Symbols :
    calc = [fn |-> "symbol", symbol |-> s, id |-> << >>, string |-> << >>]

\* auto id = SecuritySeeder::create_security_id(symbol)
SeederCreate ==
  /\ calc.fn = "symbol"
  /\ calc' = [calc EXCEPT !.fn = "id", !.id = CreateSecurityId(calc.symbol)]
  /\ UNCHANGED <<ringVars, storeVars, feedVars>>

\* auto converted = SecuritySeeder::security_id_to_string(id)
SeederConvert ==
  /\ calc.fn = "id"
  /\ calc' = [calc EXCEPT !.fn = "string",
                          !.string = SecurityIdToString(calc.id)]
  /\ UNCHANGED <<ringVars, storeVars, feedVars>>

(***************************************************************************)
(* Price: unsigned arithmetic on the raw value                             *)
(***************************************************************************)

\* the number of raw values of a Price: 2^64 in the source, 2^PriceBits here
PriceModulus == 2 ^ PriceBits

\* constexpr Price MAX_PRICE = price_from_raw(UINT64_MAX)
MAX_PRICE == PriceModulus - 1

\* constexpr Price ZERO = price_from_raw(0u)
ZERO == 0

\* the raw values
Prices == ZERO .. MAX_PRICE

\* the value an unsigned computation leaves in value_
Wrap(n) == n % PriceModulus

\* Price::operator+(Price rhs): Price{value_ + rhs.value_}
PricePlus(a, b) == Wrap(a + b)

\* a subtraction that stops at zero
PriceMinusSaturating(a, b) == IF a >= b THEN a - b ELSE ZERO

\* Price::operator-(Price rhs): Price{value_ - rhs.value_}
PriceMinus(a, b) == Wrap(a - b)

\* Price::abs_diff
AbsDiff(a, b) == IF a >= b THEN PriceMinus(a, b) ELSE PriceMinus(b, a)

\* two prices about to be computed with
PriceInit ==
  \E a, b \in Prices :
    calc = [fn |-> "prices", a |-> a, b |-> b, sum |-> ZERO, back |-> ZERO,
            diff |-> ZERO, ab |-> ZERO, ba |-> ZERO]

\* Price sum = a + b
PriceAdd ==
  /\ calc.fn = "prices"
  /\ calc' = [calc EXCEPT !.fn = "added", !.sum = PricePlus(calc.a, calc.b)]
  /\ UNCHANGED <<ringVars, storeVars, feedVars>>

\* Price back = sum - b; Price diff = a - b
PriceSubtract ==
  /\ calc.fn = "added"
  /\ calc' = [calc EXCEPT !.fn = "subtracted",
                          !.back = PriceMinus(calc.sum, calc.b),
                          !.diff = PriceMinus(calc.a, calc.b)]
  /\ UNCHANGED <<ringVars, storeVars, feedVars>>

\* a.abs_diff(b) and b.abs_diff(a)
PriceAbsDiff ==
  /\ calc.fn = "subtracted"
  /\ calc' = [calc EXCEPT !.fn = "compared",
                          !.ab = AbsDiff(calc.a, calc.b),
                          !.ba = AbsDiff(calc.b, calc.a)]
  /\ UNCHANGED <<ringVars, storeVars, feedVars>>

(***************************************************************************)
(* Specifications                                                          *)
(***************************************************************************)

\* every component as constructed
Init == RingInit /\ StoreInit /\ FeedInit /\ calc = NoCalc

\* one producer, one consumer and one monitoring thread on a ring
SpecRing == Init /\ [][RingNext]_vars

\* two threads adding, removing and clearing on an empty store
StoreAddNext ==
  \/ \E t \in {"t1", "t2"} : \E id \in Ids :
       thr[t].calls < MaxCalls /\ AddCall(t, id)
  \/ \E t \in {"t1", "t2"} : \E id \in Ids :
       thr[t].calls < MaxCalls /\ RemoveCall(t, id)
  \/ \E t \in {"t1", "t2"} : thr[t].calls < MaxCalls /\ ClearCall(t)
  \/ \E t \in Threads : FindLoadActive(t)
  \/ \E t \in Threads : FindCompareId(t)
  \/ \E t \in Threads : AddCas(t)
  \/ \E t \in Threads : InitId(t)
  \/ \E t \in Threads : InitReset(t)
  \/ \E t \in Threads : InitActivate(t)
  \/ \E t \in Threads : AddCount(t)
  \/ \E t \in Threads : RemoveDeactivate(t)
  \/ \E t \in Threads : RemoveCount(t)
  \/ \E t \in Threads : ClearDeactivate(t)
  \/ \E t \in Threads : ClearCount(t)
  \/ \E t \in Threads : Return(t)

SpecStoreAdd == Init /\ [][StoreAddNext]_vars

\* the books the tests apply: (best bid, best ask), two levels a side
InitialBooks == {<<10, 20>>, <<10, 50>>}
Books == {<<30, 40>>, <<10, 50>>}

\* the message of a book, stamped with the time it is built
BookMessage(b, ts) == TestMessage(1, ts, b[1], b[2], 2, 2)

\* SecurityStoreTest.ConcurrentReads before its threads start: security 1
\* added and an initial message applied
InitPreloaded ==
  /\ RingInit
  /\ \E b \in InitialBooks :
       /\ securities_ = UpdateFromL2(AddSecurity([i \in Slots |-> EmptySlot], 1),
                                     BookMessage(b, 1))
       /\ issued = <<BookMessage(b, 1)>>
  /\ active_count_ = 1
  /\ thr = [t \in Threads |-> IdleThread(0)]
  /\ last = NoCall
  /\ FeedInit
  /\ calc = NoCalc

\* the single writer applying updates while a reader takes snapshots
StoreRWNext ==
  \/ \E b \in Books :
       /\ thr["writer"].calls < MaxUpdates
       /\ UpdateCall("writer", BookMessage(b, Len(issued) + 1))
  \/ thr["reader"].calls < MaxSnapshots /\ SnapshotCall("reader", 1)
  \/ \E t \in Threads : FindLoadActive(t)
  \/ \E t \in Threads : FindCompareId(t)
  \/ \E t \in Threads : UpdTimestamp(t)
  \/ \E t \in Threads : UpdBestBid(t)
  \/ \E t \in Threads : UpdBestAsk(t)
  \/ \E t \in Threads : UpdLevel(t)
  \/ \E t \in Threads : UpdNumLevels(t)
  \/ \E t \in Threads : UpdCount(t)
  \/ \E t \in Threads : SnapLoad(t)
  \/ \E t \in Threads : SnapLevel(t)
  \/ \E t \in Threads : Return(t)

SpecStoreRW == InitPreloaded /\ [][StoreRWNext]_vars

\* SecurityStoreTest.TrulyLockFreeValidation: one thread adds securities,
\* the writer applies updates and a reader lists the store and reads what
\* it was listed; nothing is removed
StoreGrowNext ==
  \/ \E id \in Ids : thr["t1"].calls < MaxCalls /\ AddCall("t1", id)
  \/ \E id \in Ids :
       /\ thr["writer"].calls < MaxUpdates
       /\ UpdateCall("writer", TestMessage(id, Len(issued) + 1, 30, 40, 2, 2))
  \/ thr["reader"].calls < MaxSnapshots /\ GetAllCall("reader")
  \/ SnapshotListed("reader")
  \/ \E t \in Threads : FindLoadActive(t)
  \/ \E t \in Threads : FindCompareId(t)
  \/ \E t \in Threads : AddCas(t)
  \/ \E t \in Threads : InitId(t)
  \/ \E t \in Threads : InitReset(t)
  \/ \E t \in Threads : InitActivate(t)
  \/ \E t \in Threads : AddCount(t)
  \/ \E t \in Threads : UpdTimestamp(t)
  \/ \E t \in Threads : UpdBestBid(t)
  \/ \E t \in Threads : UpdBestAsk(t)
  \/ \E t \in Threads : UpdLevel(t)
  \/ \E t \in Threads : UpdNumLevels(t)
  \/ \E t \in Threads : UpdCount(t)
  \/ \E t \in Threads : AllLoadActive(t)
  \/ \E t \in Threads : AllPushId(t)
  \/ \E t \in Threads : SnapLoad(t)
  \/ \E t \in Threads : SnapLevel(t)
  \/ \E t \in Threads : Return(t)

SpecStoreGrow == Init /\ [][StoreGrowNext]_vars

RECURSIVE Preloaded(_)
\* the store after add_security of the ids 1 .. k, as the tests' loops fill it
Preloaded(k) ==
  IF k = 0 THEN [i \in Slots |-> EmptySlot]
  ELSE AddSecurity(Preloaded(k - 1), k)

\* a store holding some ids, and a caller about to make its calls
InitSeq ==
  /\ RingInit
  /\ FeedInit
  /\ \E k \in 0 .. MAX_SECURITIES :
       /\ securities_ = Preloaded(k)
       /\ active_count_ = k
  /\ thr = [t \in Threads |-> IdleThread(0)]
  /\ issued = << >>
  /\ last = NoCall
  /\ calc = NoCalc

\* every operation of the store, each call complete before the next begins
StoreSeqNext ==
  \/ \E id \in SeqIds : SeqAdd(id)
  \/ \E id \in SeqIds : SeqRemove(id)
  \/ SeqClear
  \/ \E id \in SeqIds : \E b \in SeqBooks :
       SeqUpdate(RawMessage(id, last.calls + 1, b[1], b[2], b[3], b[4]))
  \/ \E id \in SeqIds : SeqSnapshot(id)
  \/ \E id \in SeqIds : SeqContains(id)
  \/ SeqSize
  \/ SeqGetAll

SpecStoreSeq == InitSeq /\ [][StoreSeqNext]_vars

\* the owner changing subscriptions, through the feed and at the provider
FeedSubNext ==
  \/ \E id \in Ids : SubscribeCall(id)
  \/ SubscribeAdd
  \/ SubscribeProvider
  \/ SubscribeRollback
  \/ \E id \in Ids : UnsubscribeCall(id)
  \/ UnsubscribeProvider
  \/ UnsubscribeStore
  \/ \E id \in Ids : DirectSubscribe(id)
  \/ \E id \in Ids : DirectUnsubscribe(id)
  \/ CtlReturn

SpecFeedSub == Init /\ [][FeedSubNext]_vars

\* the provider on its own (MarketDataProviderTest): the application
\* subscribes, starts and stops it; its callback is that of a feed that
\* has not been started
ProviderNext ==
  \/ \E id \in Ids : DirectSubscribe(id)
  \/ \E id \in Ids : DirectUnsubscribe(id)
  \/ ProviderStartCall
  \/ ProviderStart
  \/ ProviderStopCall
  \/ ProviderStop
  \/ ProviderStopJoin
  \/ CtlReturn
  \/ ProviderLoop
  \/ ProviderScan
  \/ ProviderGenerate
  \/ CallbackCheck

SpecProvider == Init /\ [][ProviderNext]_vars

\* the feed between its provider and its store: the owner starts and stops
\* it and changes subscriptions while the two threads run
FeedNext ==
  \/ StartCall
  \/ StartCheck
  \/ StartReset
  \/ StartProvider
  \/ StartStore
  \/ StartSpawn
  \/ StopCall
  \/ StopCheck
  \/ StopStore
  \/ StopProvider
  \/ StopJoinProvider
  \/ StopJoinConsumer
  \/ SubscribeCall(FeedId)
  \/ SubscribeAdd
  \/ SubscribeProvider
  \/ SubscribeRollback
  \/ UnsubscribeCall(FeedId)
  \/ UnsubscribeProvider
  \/ UnsubscribeStore
  \/ DirectSubscribe(FeedId)
  \/ CtlReturn
  \/ ProviderLoop
  \/ ProviderScan
  \/ ProviderGenerate
  \/ CallbackCheck
  \/ PushLoadHead
  \/ PushLoadTail
  \/ PushConstruct
  \/ PushStoreTail
  \/ CallbackCount
  \/ ConsumerLoop
  \/ PopLoadHead
  \/ PopLoadTail
  \/ PopMove
  \/ PopDestroy
  \/ PopStoreHead
  \/ ConsumerUpdate
  \/ ConsumerCount
  \/ ConsumerLatency
  \/ ConsumerMaxLoad
  \/ ConsumerMaxCas
  \/ ConsumerEmpty
  \/ ConsumerYield

SpecFeed == Init /\ [][FeedNext]_vars


\* a provider constructed with one of the configurations, nothing else in use
InitQuantity == RingInit /\ StoreInit /\ FeedInit /\ QuantityInit

\* the provider filling the levels of its messages under a configuration
SpecQuantity == InitQuantity /\ [][CreateLevel]_vars

\* SecuritySeederTest.CreateSecurityId: a symbol made into an id and back
InitSeeder == RingInit /\ StoreInit /\ FeedInit /\ SeederInit

SpecSeeder == InitSeeder /\ [][SeederCreate \/ SeederConvert]_vars

\* PriceTest: two prices added, subtracted and compared
InitPrice == RingInit /\ StoreInit /\ FeedInit /\ PriceInit

SpecPrice == InitPrice /\ [][PriceAdd \/ PriceSubtract \/ PriceAbsDiff]_vars

\* the single writer applying updates to security 1 while another thread
\* removes and adds securities
StoreChurnNext ==
  \/ \E b \in Books :
       /\ thr["writer"].calls < MaxUpdates
       /\ UpdateCall("writer", BookMessage(b, Len(issued) + 1))
  \/ \E id \in Ids : thr["t1"].calls < MaxCalls /\ AddCall("t1", id)
  \/ \E id \in Ids : thr["t1"].calls < MaxCalls /\ RemoveCall("t1", id)
  \/ \E t \in Threads : FindLoadActive(t)
  \/ \E t \in Threads : FindCompareId(t)
  \/ \E t \in Threads : AddCas(t)
  \/ \E t \in Threads : InitId(t)
  \/ \E t \in Threads : InitReset(t)
  \/ \E t \in Threads : InitActivate(t)
  \/ \E t \in Threads : AddCount(t)
  \/ \E t \in Threads : RemoveDeactivate(t)
  \/ \E t \in Threads : RemoveCount(t)
  \/ \E t \in Threads : UpdTimestamp(t)
  \/ \E t \in Threads : UpdBestBid(t)
  \/ \E t \in Threads : UpdBestAsk(t)
  \/ \E t \in Threads : UpdLevel(t)
  \/ \E t \in Threads : UpdNumLevels(t)
  \/ \E t \in Threads : UpdCount(t)
  \/ \E t \in Threads : Return(t)

SpecStoreChurn == InitPreloaded /\ [][StoreChurnNext]_vars

\* a reader taking snapshots of security 1 while another thread removes and
\* adds securities
StoreReadChurnNext ==
  \/ thr["reader"].calls < MaxSnapshots /\ SnapshotCall("reader", 1)
  \/ \E id \in Ids : thr["t1"].calls < MaxCalls /\ AddCall("t1", id)
  \/ \E id \in Ids : thr["t1"].calls < MaxCalls /\ RemoveCall("t1", id)
  \/ \E t \in Threads : FindLoadActive(t)
  \/ \E t \in Threads : FindCompareId(t)
  \/ \E t \in Threads : AddCas(t)
  \/ \E t \in Threads : InitId(t)
  \/ \E t \in Threads : InitReset(t)
  \/ \E t \in Threads : InitActivate(t)
  \/ \E t \in Threads : AddCount(t)
  \/ \E t \in Threads : RemoveDeactivate(t)
  \/ \E t \in Threads : RemoveCount(t)
  \/ \E t \in Threads : SnapLoad(t)
  \/ \E t \in Threads : SnapLevel(t)
  \/ \E t \in Threads : Return(t)

SpecStoreReadChurn == InitPreloaded /\ [][StoreReadChurnNext]_vars

\* the steps of the owner inside a call it has entered (whether it calls at
\* all is up to the owner)
OwnerInCall ==
  \/ StartCheck
  \/ StartReset
  \/ StartProvider
  \/ StartStore
  \/ StartSpawn
  \/ StopCheck
  \/ StopStore
  \/ StopProvider
  \/ StopJoinProvider
  \/ StopJoinConsumer
  \/ SubscribeAdd
  \/ SubscribeProvider
  \/ SubscribeRollback
  \/ UnsubscribeProvider
  \/ UnsubscribeStore
  \/ CtlReturn

\* the steps of market_data_thread, the callback and its try_push
ProducerSteps ==
  \/ ProviderLoop
  \/ ProviderScan
  \/ ProviderGenerate
  \/ CallbackCheck
  \/ PushLoadHead
  \/ PushLoadTail
  \/ PushConstruct
  \/ PushStoreTail
  \/ CallbackCount

\* the steps of consumer_thread_func and its try_pop
ConsumerSteps ==
  \/ ConsumerLoop
  \/ PopLoadHead
  \/ PopLoadTail
  \/ PopMove
  \/ PopDestroy
  \/ PopStoreHead
  \/ ConsumerUpdate
  \/ ConsumerCount
  \/ ConsumerLatency
  \/ ConsumerMaxLoad
  \/ ConsumerMaxCas
  \/ ConsumerEmpty
  \/ ConsumerYield

\* where the producer is: every step of it changes this
producerAt == <<pthr.pc, pthr.i, pthr.burst, prod.pc>>

\* where the consumer is: every step of it changes this
consumerAt == <<cthr, cons.pc>>

\* the feed with each of its three threads scheduled again and again: a
\* thread that can take a step eventually takes one
SpecFeedFair ==
  /\ Init
  /\ [][FeedNext]_vars
  /\ WF_ctl(OwnerInCall)
  /\ WF_producerAt(ProducerSteps)
  /\ WF_consumerAt(ConsumerSteps)

\* the owner subscribing and unsubscribing through the feed only, with one
\* id more than the store and the provider have slots
FeedOnlySubNext ==
  \/ \E id \in SeqIds : SubscribeCall(id)
  \/ SubscribeAdd
  \/ SubscribeProvider
  \/ \E id \in SeqIds : UnsubscribeCall(id)
  \/ UnsubscribeProvider
  \/ UnsubscribeStore
  \/ CtlReturn

SpecFeedOnlySub == Init /\ [][FeedOnlySubNext]_vars

\* two threads calling start() on a feed nobody stops
FeedStartRaceNext ==
  \/ \E t \in Callers : RaceStartCall(t)
  \/ \E t \in Callers : RaceStartCheck(t)
  \/ \E t \in Callers : RaceStartReset(t)
  \/ \E t \in Callers : RaceProviderCheck(t)
  \/ \E t \in Callers : RaceProviderStore(t)
  \/ \E t \in Callers : RaceProviderSpawn(t)
  \/ \E t \in Callers : RaceStartStore(t)
  \/ \E t \in Callers : RaceStartSpawn(t)
  \/ \E t \in Callers : Return(t)

SpecFeedStartRace == Init /\ [][FeedStartRaceNext]_vars

(***************************************************************************)
(* Claims about the ring                                                   *)
(***************************************************************************)

\* C1: the values returned by successful try_pop calls are always a prefix
\* of the values accepted by successful try_push calls (same order, nothing
\* lost or duplicated, across index wrap-around), and the two sequences are
\* equal once the ring is empty.
C1_PoppedIsPrefixOfPushed ==
  /\ Len(popped) <= Len(pushed)
  /\ \A k \in 1 .. Len(popped) : popped[k] = pushed[k]
  /\ (head = tail => popped = pushed)

\* C1 witness: more values than the ring has slots went through it, the
\* last of them after a failed try_push, and the ring is empty again.
C1_Witness ==
  /\ Len(popped) > capacity
  /\ head = tail
  /\ prod.calls > Len(pushed)
  /\ cons.pc = "pop_ret" /\ cons.ret

\* C2: 0 <= tail - head <= N in every reachable state, and neither head nor
\* tail ever decreases.
C2_CountersBoundedMonotone ==
  /\ [](0 <= tail - head /\ tail - head <= capacity)
  /\ [][head' >= head /\ tail' >= tail]_vars

\* C2 witness: the ring is full after the indices have wrapped around.
C2_Witness == tail - head = capacity /\ head > 0 /\ tail > capacity

\* C10: the value size() returns is within [0, N] (so get_ring_utilization
\* is within [0, 1]) for a call made from any thread while producer and
\* consumer operate concurrently.
C10_SizeWithinCapacity ==
  mon.pc = "size_ret" => (0 <= mon.size /\ mon.size <= capacity)

\* the producer is past its full test on the path that stores an element
PushStoring == prod.pc \in {"push_construct", "push_store_tail"}

\* the consumer is past its empty test on the path that takes an element
PopTaking == cons.pc \in {"pop_move", "pop_destroy", "pop_store_head"}

\* two element values are the same value (an empty slot and a stored
\* element are values of different kinds, compared by their images)
SameElem(x, y) == ToString(x) = ToString(y)

\* a step leaves head, tail and every buffer slot as they were
RingUntouched ==
  /\ head' = head
  /\ tail' = tail
  /\ \A i \in 0 .. capacity - 1 : SameElem(buffer'[i], buffer[i])

\* C16: try_push returns false exactly when the ring held N elements (the
\* elements published so far less those consumed when the call read head),
\* and such a call changes neither head, tail nor a stored element;
\* try_pop returns false exactly when the ring was empty when the call
\* read tail, and such a call changes neither head, tail nor out.
C16_FailureIffFullOrEmpty ==
  /\ [](PushStoring => prod.ret)
  /\ [](PopTaking => cons.ret)
  /\ [][/\ (prod.pc = "push_load_head" /\ prod'.pc = "push_load_tail")
             => prod'.head = Len(popped)
        /\ (prod.pc = "push_load_tail" /\ prod'.pc # "push_load_tail")
             => /\ ~prod'.ret <=> Len(pushed) - prod.head = capacity
                /\ ~prod'.ret <=> prod'.pc = "push_ret"
        /\ (prod'.pc # prod.pc /\ ~PushStoring)
             => RingUntouched /\ Len(pushed') = Len(pushed)
        /\ (cons.pc = "pop_load_tail" /\ cons'.pc # "pop_load_tail")
             => /\ ~cons'.ret <=> Len(pushed) = Len(popped)
                /\ ~cons'.ret <=> cons'.pc = "pop_ret"
        /\ (cons'.pc # cons.pc /\ ~PopTaking)
             => /\ RingUntouched
                /\ Len(popped') = Len(popped)
                /\ SameElem(cons'.out, cons.out)]_vars

\* C16 witness: a try_pop that found the ring empty and a try_push that
\* found it full have both returned false, the ring still holding N
\* elements and the consumer's out value being the one it popped before.
C16_Witness ==
  /\ prod.pc = "push_ret" /\ ~prod.ret
  /\ cons.pc = "pop_ret" /\ ~cons.ret
  /\ ~SameElem(cons.out, NoElem)
  /\ tail - head = capacity
  /\ \A i \in 0 .. capacity - 1 : ~SameElem(buffer[i], NoElem)

(***************************************************************************)
(* Claims about the store under concurrent add, remove and clear           *)
(***************************************************************************)

\* thread t won a slot's compare-exchange and is inside initialize
InInitialize(t) == thr[t].pc \in {"init_id", "init_reset", "init_activate"}

\* C3: when two threads concurrently attempt to claim the same inactive
\* slot inside add_security, exactly one of them succeeds and initializes
\* it: never are two threads initializing the same slot.
C3_OneClaimerPerSlot ==
  \A t1, t2 \in Threads :
    (t1 # t2 /\ InInitialize(t1) /\ InInitialize(t2))
      => thr[t1].data # thr[t2].data

\* C4: a slot's active flag changes only false->true by add_security or
\* true->false by remove_security or clear, and security_id is never
\* written while the slot's active flag is true.
C4_ActiveAndIdProtocol ==
  [][\A i \in Slots :
       /\ (~securities_[i].active /\ securities_'[i].active)
            => \E t \in Threads : /\ thr[t].pc = "init_activate"
                                  /\ thr[t].data = i
                                  /\ thr'[t].pc = "add_count"
       /\ (securities_[i].active /\ ~securities_'[i].active)
            => \E t \in Threads :
                 \/ /\ thr[t].pc = "remove_deactivate"
                    /\ thr[t].data = i
                    /\ thr'[t].pc = "remove_count"
                 \/ /\ thr[t].pc = "clear_deactivate"
                    /\ thr[t].i = i
                    /\ thr'[t] # thr[t]
       /\ (\E t \in Threads : /\ thr[t].pc = "init_id"
                               /\ thr[t].data = i
                               /\ thr'[t].pc = "init_reset")
            => ~securities_[i].active]_vars

\* C5: in every reachable state at most one active slot carries a given
\* security_id.
C5_UniqueActiveId ==
  \A i, j \in Slots :
    (i # j /\ securities_[i].active /\ securities_[j].active)
      => securities_[i].security_id # securities_[j].security_id

(***************************************************************************)
(* Claims about snapshots taken while the single writer updates            *)
(***************************************************************************)

\* thread t holds the snapshot of a get_security_snapshot that returned true
SnapshotTaken(t) ==
  thr[t].pc = "ret" /\ thr[t].op = "snapshot" /\ thr[t].ret

\* the first n entries of a snapshot side are those one update wrote
FromOneUpdate(n, levels, side) ==
  \/ n = 0
  \/ \E u \in 1 .. Len(issued) :
       LET m == issued[u]
           ml == IF side = "bids" THEN m.bids ELSE m.asks
           mn == IF side = "bids" THEN m.num_bid_levels ELSE m.num_ask_levels
       IN n = CopyCount(mn) /\ \A k \in 0 .. n - 1 : levels[k] = ml[k]

\* C6: in a snapshot taken concurrently with the single writer's updates of
\* the same security, the entries bids[0 .. num_bid_levels) all come from
\* one single update, and likewise the asks; no entry below the observed
\* num_levels is torn or from a later update.
C6_LevelsFromOneUpdate ==
  \A t \in Threads :
    SnapshotTaken(t) =>
      /\ FromOneUpdate(thr[t].snapshot.num_bid_levels, thr[t].snapshot.bids,
                       "bids")
      /\ FromOneUpdate(thr[t].snapshot.num_ask_levels, thr[t].snapshot.asks,
                       "asks")

\* every message applied so far has its best bid below its own best ask
EachUncrossed ==
  \A u \in 1 .. Len(issued) :
    issued[u].bids[0].price < issued[u].asks[0].price

\* the best bids of the messages applied so far advance monotonically
BidsAdvance ==
  \A u, v \in 1 .. Len(issued) :
    u < v => issued[u].bids[0].price <= issued[v].bids[0].price

\* every message applied so far has its best bid below the best ask of
\* every message applied so far
AllUncrossed ==
  \A u, v \in 1 .. Len(issued) :
    issued[u].bids[0].price < issued[v].asks[0].price

\* a snapshot with best_bid > best_ask while both are non-zero
Crossed(snap) ==
  snap.best_bid > snap.best_ask /\ snap.best_bid # 0 /\ snap.best_ask # 0

C8_SubscribeAllOrNothing ==
  (ctl.pc = "ret" /\ ctl.op = "subscribe") =>
    /\ ~ctl.store_ret =>
         /\ ~ctl.ret
         /\ ~ctl.provider_called
         /\ Members(provider_.securities_) = ctl.provider_before
    /\ (ctl.store_ret /\ ~ctl.provider_ret) =>
         /\ ~ctl.ret
         /\ ctl.provider_called
         /\ ctl.id \notin Members(securities_)
    /\ ~ctl.ret =>
         /\ Members(securities_) = ctl.store_before
         /\ Members(provider_.securities_) = ctl.provider_before
    /\ ctl.ret =>
         /\ ctl.store_ret /\ ctl.provider_ret
         /\ ctl.id \notin ctl.store_before
         /\ ctl.id \in Members(securities_)
         /\ ctl.id \in Members(provider_.securities_)

\* C8 witness: a subscribe whose store add succeeded and whose provider
\* subscribe failed has returned false.
C8_Witness ==
  /\ ctl.pc = "ret" /\ ctl.op = "subscribe"
  /\ ctl.store_ret /\ ctl.provider_called /\ ~ctl.provider_ret
  /\ ~ctl.ret

\* the callback is between its running_ check and its counter
InCallback == pthr.pc = "callback_push"

\* C9: with statistics enabled, a callback that found the feed running
\* bumps exactly one counter when it returns: messages_produced when the
\* message was enqueued, ring_full_events when the ring was full. A full
\* ring is left as it is, the message is in the ring at no time, and the
\* callback returns at its next step without a second try_push. So
\* messages_produced + ring_full_events is the number of callbacks that
\* found the feed running since the statistics were reset.
C9_OneCounterPerCallback ==
  /\ [](stats_.messages_produced + stats_.ring_full_events
          = handled - (IF InCallback THEN 1 ELSE 0))
  /\ [][(InCallback /\ pthr'.pc # "callback_push") =>
          /\ prod.pc = "push_ret"
          /\ prod.calls = prod'.calls
          /\ IF prod.ret
             THEN /\ stats_'.messages_produced = stats_.messages_produced + 1
                  /\ stats_'.ring_full_events = stats_.ring_full_events
                  /\ pushed[Len(pushed)] = prod.val
             ELSE /\ stats_'.ring_full_events = stats_.ring_full_events + 1
                  /\ stats_'.messages_produced = stats_.messages_produced
                  /\ \A k \in 1 .. Len(pushed) : pushed[k] # prod.val]_vars
  /\ [][(InCallback /\ prod.pc # "push_ret" /\ prod'.pc = "push_ret"
            /\ ~prod'.ret) =>
          /\ PushIsFull(tail, prod.head)
          /\ <<head, tail, buffer, pushed>>' = <<head, tail, buffer, pushed>>]_vars

\* C9 witness: callbacks of a running feed have returned, one after
\* enqueuing its message and one after finding the ring full.
C9_Witness ==
  /\ ~InCallback
  /\ stats_.messages_produced > 0
  /\ stats_.ring_full_events > 0
  /\ handled = stats_.messages_produced + stats_.ring_full_events

(***************************************************************************)
(* Claims about the store, one call at a time                              *)
(***************************************************************************)

\* the slots of st whose active flag is true
ActiveSlots(st) == {i \in Slots : st[i].active}

\* C11: when add_security, remove_security and clear each run to completion
\* before the next call begins, active_count_ (what size() returns) is the
\* number of slots whose active flag is true, a size() call returns that
\* number, and get_all_securities() returns the ids of exactly those slots,
\* one entry a slot.
C11_SizeAndAllMatchActiveSlots ==
  /\ active_count_ = Cardinality(ActiveSlots(securities_))
  /\ last.op = "size" => last.size = Cardinality(ActiveSlots(securities_))
  /\ last.op = "get_all" =>
       /\ Len(last.all) = Cardinality(ActiveSlots(securities_))
       /\ {last.all[k] : k \in 1 .. Len(last.all)}
            = {securities_[i].security_id : i \in ActiveSlots(securities_)}

\* C11 witness: get_all_securities() returned while a slot that held an id
\* is inactive and another is active.
C11_Witness ==
  /\ last.op = "get_all"
  /\ Len(last.all) > 0
  /\ \E i \in Slots :
       ~securities_[i].active /\ securities_[i].security_id # NoId

\* the last message update_from_l2 returned true for, for the id of the
\* most recent call, since that id was added
LastApplied == last.applied[last.id][Len(last.applied[last.id])]

\* the most recent call was a snapshot of an id that is in the store and
\* has been updated since it was added
SnapshotAfterUpdate ==
  /\ last.op = "snapshot" /\ last.ret
  /\ last.applied[last.id] # << >>

\* min(k, 5)
Clamped(k) == IF k < 5 THEN k ELSE 5

\* a side of a snapshot holds the first min(k, 5) entries of the message's
\* side, k its count, and zero entries after them
SideIsMessageSide(num, levels, k, msgLevels) ==
  /\ num = Clamped(k)
  /\ \A i \in LevelIdx :
       levels[i] = IF i < Clamped(k) THEN msgLevels[i] ELSE ZeroLevel

\* C13: a snapshot of an active security read after update_from_l2(m)
\* completed, m having num_bid_levels = k (above 5 too) and num_ask_levels =
\* j, has num_bid_levels = min(k, 5), its first min(k, 5) bids equal to m's,
\* every later bid entry the zero PriceLevel; the same for the asks with j.
C13_SnapshotLevelsClamped ==
  SnapshotAfterUpdate =>
    /\ SideIsMessageSide(last.snapshot.num_bid_levels, last.snapshot.bids,
                         LastApplied.num_bid_levels, LastApplied.bids)
    /\ SideIsMessageSide(last.snapshot.num_ask_levels, last.snapshot.asks,
                         LastApplied.num_ask_levels, LastApplied.asks)

\* C13 witness: a snapshot was read after a message with more than five bid
\* levels and fewer than five ask levels, all of whose entries are filled.
C13_Witness ==
  /\ SnapshotAfterUpdate
  /\ LastApplied.num_bid_levels > 5
  /\ LastApplied.num_ask_levels < 5
  /\ LastApplied.asks[4] # ZeroLevel
  /\ last.snapshot.asks[4] = ZeroLevel

\* the slot update_from_l2 found for the most recent call
UpdatedSlot == FindSecurityData(last.before, last.id)

\* C14: update_from_l2(m) on an active slot stores m.bids[0].price as
\* best_bid when m.num_bid_levels > 0 and leaves best_bid as it was when
\* m.num_bid_levels = 0; the same for best_ask with m.num_ask_levels.
C14_BestPricesFollowCounts ==
  (last.op = "update" /\ last.ret) =>
    /\ securities_[UpdatedSlot].best_bid =
         IF last.msg.num_bid_levels > 0 THEN last.msg.bids[0].price
         ELSE last.before[UpdatedSlot].best_bid
    /\ securities_[UpdatedSlot].best_ask =
         IF last.msg.num_ask_levels > 0 THEN last.msg.asks[0].price
         ELSE last.before[UpdatedSlot].best_ask

\* C14 witness: a message without bid levels was applied to a slot that had
\* a best bid, and a message without ask levels to one that had a best ask.
C14_Witness ==
  /\ last.op = "update" /\ last.ret
  /\ \/ /\ last.msg.num_bid_levels = 0
        /\ last.before[UpdatedSlot].best_bid # 0
        /\ last.before[UpdatedSlot].best_bid # last.msg.bids[0].price
     \/ /\ last.msg.num_ask_levels = 0
        /\ last.before[UpdatedSlot].best_ask # 0
        /\ last.before[UpdatedSlot].best_ask # last.msg.asks[0].price

\* what a snapshot shares with every reading of C15: update_count is the
\* number of messages applied since the id was added, last_update_ns and
\* the levels are those of the last of them
CountTimeAndLevelsAreLatest ==
  /\ last.snapshot.update_count = Len(last.applied[last.id])
  /\ last.snapshot.last_update_ns = LastApplied.timestamp_ns
  /\ SideIsMessageSide(last.snapshot.num_bid_levels, last.snapshot.bids,
                       LastApplied.num_bid_levels, LastApplied.bids)
  /\ SideIsMessageSide(last.snapshot.num_ask_levels, last.snapshot.asks,
                       LastApplied.num_ask_levels, LastApplied.asks)

\* the best bid and ask a message carries, 0 for a side without levels
MsgBestBid(m) == IF m.num_bid_levels > 0 THEN m.bids[0].price ELSE 0
MsgBestAsk(m) == IF m.num_ask_levels > 0 THEN m.asks[0].price ELSE 0

\* C15 as stated: after n successful update_from_l2 calls for a security
\* since its activation its snapshot has update_count = n, the timestamp of
\* the most recent message, and the best bid, best ask and levels of the
\* most recent message alone.
C15_Original ==
  SnapshotAfterUpdate =>
    /\ CountTimeAndLevelsAreLatest
    /\ last.snapshot.best_bid = MsgBestBid(LastApplied)
    /\ last.snapshot.best_ask = MsgBestAsk(LastApplied)

\* the messages applied to the id of the most recent call that have bid
\* levels, and those that have ask levels, by position
WithBids == {k \in 1 .. Len(last.applied[last.id]) :
               last.applied[last.id][k].num_bid_levels > 0}
WithAsks == {k \in 1 .. Len(last.applied[last.id]) :
               last.applied[last.id][k].num_ask_levels > 0}

\* the largest member of a non-empty set of positions
Latest(S) == CHOOSE k \in S : \A j \in S : j <= k

\* C15 amended: update_count = n, the timestamp and the levels are those
\* of the most recent message; best_bid is the first bid price of the most
\* recent message that has bid levels (0 when none had), best_ask the first
\* ask price of the most recent message that has ask levels.
C15_LastWriteWinsPerField ==
  SnapshotAfterUpdate =>
    /\ CountTimeAndLevelsAreLatest
    /\ last.snapshot.best_bid =
         IF WithBids = {} THEN 0
         ELSE last.applied[last.id][Latest(WithBids)].bids[0].price
    /\ last.snapshot.best_ask =
         IF WithAsks = {} THEN 0
         ELSE last.applied[last.id][Latest(WithAsks)].asks[0].price

\* C15 witness: a snapshot read after two messages, the second without bid
\* levels, shows the first message's best bid beside the second's levels.
C15_Witness ==
  /\ SnapshotAfterUpdate
  /\ Len(last.applied[last.id]) = 2
  /\ LastApplied.num_bid_levels = 0
  /\ last.snapshot.best_bid = last.applied[last.id][1].bids[0].price
  /\ last.snapshot.best_bid # 0
  /\ last.snapshot.update_count = 2

\* id is the id of an active slot of st
IsActiveId(st, id) ==
  \E i \in Slots : st[i].active /\ st[i].security_id = id

\* the most recent call left every slot and the count as they were
StoreUnchanged ==
  securities_ = last.before /\ active_count_ = last.count_before

\* every slot of st is active
IsFull(st) == ActiveSlots(st) = Slots

\* C17: with MAX_SECURITIES distinct ids active, add_security of a further
\* id returns false and leaves the store unchanged; after a remove_security
\* that succeeded on that full store, the next add_security of a new id
\* returns true and the id is in the store.
C17_FullRejectsFreedSlotReusable ==
  /\ []((last.op = "add" /\ IsFull(last.before)
           /\ ~IsActiveId(last.before, last.id))
          => (~last.ret /\ StoreUnchanged))
  /\ [][(/\ last.op = "remove" /\ last.ret /\ IsFull(last.before)
         /\ last'.op = "add" /\ last'.calls = last.calls + 1
         /\ ~IsActiveId(securities_, last'.id))
          => (/\ last'.ret
              /\ IsActiveId(securities_', last'.id)
              /\ IsFull(securities_'))]_vars

\* C17 witness: the store is full again after an id that was never in it
\* was added into the slot a remove_security had freed.
C17_Witness ==
  /\ last.op = "add" /\ last.ret
  /\ IsFull(securities_)
  /\ \A i \in Slots : last.before[i].security_id # last.id
  /\ \E i \in Slots : /\ ~last.before[i].active
                      /\ last.before[i].security_id # NoId
                      /\ securities_[i].security_id = last.id

\* C18: add_security(id) for an id that is already active returns false
\* and changes nothing: the count, the active ids and every field of
\* every slot are as before the call.
C18_DuplicateAddRejected ==
  (last.op = "add" /\ IsActiveId(last.before, last.id))
    => (~last.ret /\ StoreUnchanged)

\* C18 witness: an id that is active and has been updated was added again
\* while a slot was free, and its slot still shows the update.
C18_Witness ==
  /\ last.op = "add" /\ ~last.ret
  /\ ~IsFull(securities_)
  /\ \E i \in Slots : /\ securities_[i].active
                      /\ securities_[i].security_id = last.id
                      /\ securities_[i].update_count > 0
                      /\ securities_[i].best_bid # 0

\* C19: remove_security(id) returns false and changes nothing when no
\* active slot matches id; otherwise it returns true, id is no longer
\* contained and the count is one less; a second remove_security(id)
\* right after returns false.
C19_RemoveContract ==
  /\ []((last.op = "remove" /\ ~IsActiveId(last.before, last.id))
          => (~last.ret /\ StoreUnchanged))
  /\ []((last.op = "remove" /\ IsActiveId(last.before, last.id))
          => /\ last.ret
             /\ ~IsActiveId(securities_, last.id)
             /\ active_count_ = last.count_before - 1
             /\ Cardinality(ActiveSlots(securities_))
                  = Cardinality(ActiveSlots(last.before)) - 1)
  /\ [][(/\ last.op = "remove" /\ last.ret
         /\ last'.op = "remove" /\ last'.calls = last.calls + 1
         /\ last'.id = last.id)
          => ~last'.ret]_vars

\* C19 witness: a remove_security of an id that had been removed before
\* returned false while another security was still in the store.
C19_Witness ==
  /\ last.op = "remove" /\ ~last.ret
  /\ \E i \in Slots : ~securities_[i].active
                      /\ securities_[i].security_id = last.id
  /\ active_count_ > 0

\* C20: update_from_l2(m) returns false and modifies no slot when no
\* active slot matches m.security_id; when it returns true an active slot
\* matched, and every other slot is as it was before the call.
C20_UpdateTouchesOnlyItsSlot ==
  /\ (last.op = "update" /\ ~IsActiveId(last.before, last.msg.security_id))
       => (~last.ret /\ StoreUnchanged)
  /\ (last.op = "update" /\ last.ret)
       => /\ IsActiveId(last.before, last.msg.security_id)
          /\ active_count_ = last.count_before
          /\ \A i \in Slots :
               ~(/\ last.before[i].active
                 /\ last.before[i].security_id = last.msg.security_id)
                 => securities_[i] = last.before[i]

\* C20 witness: a message was applied to one security while another, which
\* had been updated earlier, kept its prices and its count.
C20_Witness ==
  /\ last.op = "update" /\ last.ret
  /\ \E i \in Slots : /\ securities_[i].active
                      /\ securities_[i].security_id # last.msg.security_id
                      /\ securities_[i].update_count > 0
                      /\ securities_[i].best_bid # last.msg.bids[0].price

(***************************************************************************)
(* Claims about the store under concurrent callers                         *)
(***************************************************************************)

\* no remove_security and no clear was ever issued, and the other thread
\* has called nothing but add_security of another id than thread t's
OnlyOtherAdds(t) ==
  /\ thr[t].calls = 1
  /\ \A u \in {"t1", "t2"} \ {t} :
       \/ thr[u].calls = 0
       \/ /\ thr[u].calls = 1
          /\ thr[u].op = "add"
          /\ thr[u].id # thr[t].id

\* C12: once add_security(id) has returned true, and until remove_security(id)
\* or clear() is issued, the store contains id (contains(id) and
\* get_security_snapshot(id, _) find its slot) whatever add_security calls
\* for other ids other threads make.
C12_AddedStaysPresent ==
  \A t \in {"t1", "t2"} :
    (thr[t].pc = "ret" /\ thr[t].op = "add" /\ thr[t].ret /\ OnlyOtherAdds(t))
      => Contains(securities_, thr[t].id)

(***************************************************************************)
(* Claims about starting and stopping the feed                             *)
(***************************************************************************)

\* the owner's thread takes a step
OwnerSteps == ctl'.pc # ctl.pc

\* a step leaves the feed's flag, telemetry, source and threads as they were
FeedUntouched ==
  /\ running_' = running_
  /\ stats_' = stats_
  /\ handled' = handled
  /\ provider_' = provider_
  /\ pthr' = pthr
  /\ cthr' = cthr

\* C21: start() on a running feed returns false and changes nothing (no
\* telemetry reset, no restart of the source, no second consumer thread);
\* on a stopped feed the source starts and start() returns true with
\* is_running() true, a stopped feed after a stop() included.
C21_StartContract ==
  /\ []((ctl.op = "start" /\ ctl.pc = "ret") => running_)
  /\ []((ctl.pc \in {"idle", "ret"} /\ ~running_)
          => (~provider_.running_ /\ pthr.pc = "off" /\ cthr.pc = "off"))
  /\ []((ctl.pc \in {"start_reset", "start_provider"})
          => (~running_ /\ ~provider_.running_ /\ cthr.pc = "off"))
  /\ [][/\ (OwnerSteps /\ ctl.pc = "start" /\ running_)
             => (ctl'.pc = "ret" /\ ~ctl'.ret /\ FeedUntouched)
        /\ (OwnerSteps /\ ctl.pc = "start" /\ ~running_)
             => ctl'.pc = "start_reset"
        /\ (OwnerSteps /\ ctl.pc = "start_provider")
             => ctl'.pc = "start_store"
        /\ (OwnerSteps /\ ctl.op = "start" /\ ctl.pc # "start"
              /\ ctl'.pc = "ret")
             => (/\ ctl'.ret
                 /\ running_'
                 /\ provider_'.running_
                 /\ cthr.pc = "off" /\ cthr'.pc # "off")]_vars

\* C21 witness: a start() on a feed that was running and had received
\* messages returned false, the counters and both threads still there.
C21_Witness ==
  /\ ctl.op = "start" /\ ctl.pc = "ret" /\ ~ctl.ret
  /\ running_ /\ provider_.running_
  /\ stats_.messages_produced > 0
  /\ cthr.pc # "off" /\ pthr.pc # "off"

\* C22: stop() on a stopped feed is a no-op; on a running feed, when it
\* returns is_running() is false, the source is stopped and its thread
\* joined, and the consumer thread has left its loop and been joined; a
\* further stop() finds the feed stopped and changes nothing.
C22_StopIdempotent ==
  /\ []((ctl.op = "stop" /\ ctl.pc = "ret")
          => (/\ ~running_
              /\ ~provider_.running_
              /\ pthr.pc = "off"
              /\ cthr.pc = "off"))
  /\ [][/\ (OwnerSteps /\ ctl.pc = "stop" /\ ~running_)
             => (ctl'.pc = "ret" /\ FeedUntouched)
        /\ (OwnerSteps /\ ctl.pc = "stop" /\ running_)
             => ctl'.pc = "stop_store"
        /\ (OwnerSteps /\ ctl.pc = "stop_join_provider")
             => pthr.pc = "exited"
        /\ (OwnerSteps /\ ctl.pc = "stop_join_consumer")
             => (cthr.pc = "c_done" /\ ctl'.pc = "ret")]_vars

\* C22 witness: a stop() on a feed that had run and been stopped returned
\* at once, finding running_ clear.
C22_Witness ==
  /\ ctl.op = "stop" /\ ctl.pc = "ret" /\ ~ctl.ret
  /\ pthr.passes > 0
  /\ stats_.ring_empty_events > 0

(***************************************************************************)
(* Claims about unsubscribing                                              *)
(***************************************************************************)

\* C23: unsubscribe(id) attempts the removal at the provider and at the
\* store, the second also when the first failed; it returns true exactly
\* when both removed id; when it has returned id is in neither and the
\* other ids are where they were; an unsubscribe(id) repeated right after
\* finds id in neither.
C23_UnsubscribeBoth ==
  /\ []((ctl.pc = "ret" /\ ctl.op = "unsubscribe")
          => (/\ ctl.provider_called
              /\ ctl.provider_ret <=> ctl.id \in ctl.provider_before
              /\ ctl.store_ret <=> ctl.id \in ctl.store_before
              /\ ctl.ret <=> (ctl.provider_ret /\ ctl.store_ret)
              /\ Members(securities_) = ctl.store_before \ {ctl.id}
              /\ Members(provider_.securities_)
                   = ctl.provider_before \ {ctl.id}))
  /\ [][(/\ ctl.pc = "idle" /\ ctl.op = "unsubscribe"
         /\ ctl'.pc = "unsubscribe" /\ ctl'.id = ctl.id)
          => (/\ ctl'.id \notin ctl'.store_before
              /\ ctl'.id \notin ctl'.provider_before)]_vars

\* C23 witness: an unsubscribe whose removal at the provider failed has
\* removed the id from the store all the same, and returned false.
C23_Witness ==
  /\ ctl.pc = "ret" /\ ctl.op = "unsubscribe"
  /\ ~ctl.provider_ret /\ ctl.store_ret /\ ~ctl.ret
  /\ ctl.id \in ctl.store_before
  /\ ctl.id \notin Members(securities_)

(***************************************************************************)
(* Claims about a store that only grows                                    *)
(***************************************************************************)

\* the ids of a vector get_all_securities returned
Listed(r) == {r.all[n] : n \in 1 .. Len(r.all)}

\* C24: with one thread adding, the writer updating and a reader, and
\* nothing removed, get_security_snapshot of an id that get_all_securities
\* returned earlier returns true; active_count_ goes up by one exactly when
\* an add_security returns true, so that with every thread finished size()
\* is the number of add_security calls that returned true, and the number
\* of active slots.
C24_ListedIdsReadable ==
  /\ []((thr["reader"].pc = "ret" /\ thr["reader"].op = "snapshot")
          => thr["reader"].ret)
  /\ [](thr["reader"].op \in {"get_all", "snapshot"}
          => \A id \in Listed(thr["reader"]) :
               \E i \in Slots : /\ securities_[i].active
                                /\ securities_[i].security_id = id)
  /\ [](thr["t1"].pc \in {"idle", "ret"}
          => active_count_ = Cardinality({i \in Slots : securities_[i].active}))
  /\ [][active_count_' =
          IF thr["t1"].pc # "ret" /\ thr'["t1"].pc = "ret" /\ thr'["t1"].ret
          THEN active_count_ + 1 ELSE active_count_]_vars

\* C24 witness: the reader read a security it had been listed, after the
\* adder added a second one and the writer updated the first.
C24_Witness ==
  /\ thr["reader"].pc = "ret" /\ thr["reader"].op = "snapshot"
  /\ thr["reader"].ret
  /\ Len(thr["reader"].all) = 1
  /\ thr["reader"].snapshot.update_count > 0
  /\ active_count_ = 2
  /\ thr["t1"].pc = "idle" /\ thr["writer"].pc = "idle"

(***************************************************************************)
(* Claims about the simulator source on its own                            *)
(***************************************************************************)

\* the provider's thread is inside the delivery callback
CallbackInProgress == pthr.pc \in {"callback", "callback_push"}

\* C25: the provider's thread exists, and the callback is invoked, only
\* from a start() that returned true until the stop() that follows has
\* returned: none before start(), and when stop() has returned none is in
\* progress; start() on a running provider returns false and stop() on a
\* stopped one returns at once, both changing nothing.
C25_CallbacksBetweenStartAndStop ==
  /\ []((CallbackInProgress \/ pthr.pc # "off")
          => (provider_.running_ \/ ctl.pc = "p_stop_join"))
  /\ []((ctl.op = "p_stop" /\ ctl.pc = "ret")
          => (~provider_.running_ /\ pthr.pc = "off"))
  /\ []((ctl.op = "p_start" /\ ctl.pc = "ret") => provider_.running_)
  /\ [][/\ (OwnerSteps /\ ctl.pc = "p_start")
             => (/\ ctl'.pc = "ret"
                 /\ ctl'.ret <=> ~provider_.running_
                 /\ provider_.running_
                      => (provider_' = provider_ /\ pthr' = pthr))
        /\ (OwnerSteps /\ ctl.pc = "p_stop" /\ ~provider_.running_)
             => (ctl'.pc = "ret" /\ provider_' = provider_ /\ pthr' = pthr)
        /\ (pthr.pc = "off" /\ pthr'.pc # "off")
             => (ctl.pc = "p_start" /\ ctl'.ret)]_vars

\* C25 witness: stop() has returned after the thread had delivered
\* messages, and the thread is gone.
C25_Witness ==
  /\ ctl.op = "p_stop" /\ ctl.pc = "ret" /\ ctl.ret
  /\ pthr.generated > 0
  /\ pthr.pc = "off"
  /\ ~provider_.running_

(***************************************************************************)
(* Claims about the quantities the simulator source emits                  *)
(***************************************************************************)

\* C26: every level the provider emits has a quantity between the
\* configured min_quantity and max_quantity, whatever range is configured.
C26_QuantityWithinConfig ==
  calc.fn = "level" =>
    (calc.min_quantity <= calc.quantity /\ calc.quantity <= calc.max_quantity)

(***************************************************************************)
(* Claims about symbols and security ids                                   *)
(***************************************************************************)

\* a string without a NUL byte
NoNul(s) == \A i \in 1 .. Len(s) : s[i] # 0

\* C27: for a string s of at most 8 non-NUL bytes the id is s padded with
\* NUL to 8 bytes and converting it back gives s; for a longer string of
\* non-NUL bytes the result is the first 8 bytes of s.
C27_SymbolRoundTrip ==
  (calc.fn = "string" /\ NoNul(calc.symbol)) =>
    IF Len(calc.symbol) <= 8
    THEN /\ calc.string = calc.symbol
         /\ Len(calc.id) = 8
         /\ \A i \in 1 .. 8 :
              calc.id[i] = IF i <= Len(calc.symbol) THEN calc.symbol[i] ELSE 0
    ELSE calc.string = SubSeq(calc.symbol, 1, 8)

\* C27 witness: a symbol of four bytes came back as it was, from an id
\* whose last four bytes are NUL.
C27_Witness ==
  /\ calc.fn = "string"
  /\ Len(calc.symbol) = 4 /\ NoNul(calc.symbol)
  /\ calc.string = calc.symbol
  /\ calc.id[5] = 0 /\ calc.id[8] = 0

(***************************************************************************)
(* Claims about Price                                                      *)
(***************************************************************************)

\* the distance between two numbers
Distance(a, b) == IF a >= b THEN a - b ELSE b - a

\* C28: Price addition and subtraction are arithmetic modulo the number of
\* raw values: (a + b) - b = a also when a + b wraps, MAX_PRICE + 1 = 0 and
\* 0 - 1 = MAX_PRICE; a.abs_diff(b) = b.abs_diff(a) = |a - b|, never
\* wrapped.
C28_PriceArithmeticWraps ==
  calc.fn = "compared" =>
    /\ calc.back = calc.a
    /\ calc.sum \in Prices /\ calc.diff \in Prices
    /\ \E q \in {0, 1} : calc.a + calc.b = calc.sum + q * PriceModulus
    /\ \E q \in {0, 1} : calc.a - calc.b = calc.diff - q * PriceModulus
    /\ (calc.a = MAX_PRICE /\ calc.b = 1) => calc.sum = 0
    /\ (calc.a = 0 /\ calc.b = 1) => calc.diff = MAX_PRICE
    /\ calc.ab = calc.ba
    /\ calc.ab = Distance(calc.a, calc.b)

\* C28 witness: a sum that wrapped gave the first price back when the
\* second was subtracted from it.
C28_Witness ==
  /\ calc.fn = "compared"
  /\ calc.a + calc.b > MAX_PRICE
  /\ calc.sum < calc.b
  /\ calc.back = calc.a
  /\ calc.a > calc.b /\ calc.ab = calc.a - calc.b

(***************************************************************************)
(* Claims about updates racing with add_security and remove_security       *)
(***************************************************************************)

\* the messages update_from_l2 was called with for security id
AddressedTo(id) ==
  {issued[n] : n \in {j \in 1 .. Len(issued) : issued[j].security_id = id}}

\* C29: whatever add_security and remove_security calls of another thread
\* interleave with the writer, the best prices an active slot shows were
\* taken from a message addressed to the security the slot holds: the
\* writer never writes a message into a slot of a different security.
C29_NoForeignData ==
  \A i \in Slots :
    securities_[i].active =>
      /\ securities_[i].best_bid # 0
           => \E m \in AddressedTo(securities_[i].security_id) :
                m.bids[0].price = securities_[i].best_bid
      /\ securities_[i].best_ask # 0
           => \E m \in AddressedTo(securities_[i].security_id) :
                m.asks[0].price = securities_[i].best_ask

(***************************************************************************)
(* Claims about the slots of the ring                                      *)
(***************************************************************************)

\* the consumer is reading or destroying the element of its slot
PopAccessing == cons.pc \in {"pop_move", "pop_destroy"}

\* C30: when the producer is about to construct into a slot, the slot holds
\* no element and the consumer is not moving out of it or destroying it;
\* when the consumer reads or destroys a slot, the slot's index is below
\* the published tail, the slot holds the element pushed at that index, and
\* the producer is not constructing into it.
C30_SlotsNeverShared ==
  /\ prod.pc = "push_construct"
       => /\ SameElem(buffer[PushSlot(prod.tail)], NoElem)
          /\ prod.tail - head < capacity
          /\ PopAccessing => PopSlot(cons.head) # PushSlot(prod.tail)
  /\ PopAccessing
       => /\ cons.head < tail
          /\ cons.head < Len(pushed)
          /\ SameElem(buffer[PopSlot(cons.head)], pushed[cons.head + 1])

\* C30 witness: the producer constructs into a slot it is using for the
\* second time while the consumer moves an element out of the other slot.
C30_Witness ==
  /\ prod.pc = "push_construct"
  /\ prod.tail >= capacity
  /\ cons.pc = "pop_move"
  /\ PopSlot(cons.head) # PushSlot(prod.tail)

(***************************************************************************)
(* Claims about snapshots racing with add_security and remove_security     *)
(***************************************************************************)

\* C31: whenever get_security_snapshot(id, out) returns true, out.security_id
\* is id, also while remove_security(id) and add_security of another id run
\* on another thread.
C31_SnapshotIdIsRequested ==
  \A t \in Threads :
    (thr[t].pc = "ret" /\ thr[t].op = "snapshot" /\ thr[t].ret)
      => thr[t].snapshot.security_id = thr[t].id

(***************************************************************************)
(* Claims about what a snapshot shows beyond its level counts              *)
(***************************************************************************)

\* C32: after any sequence of completed add_security, update_from_l2,
\* remove_security and clear calls, the snapshot of every active security
\* has the zero PriceLevel in every bid entry at index >= num_bid_levels and
\* in every ask entry at index >= num_ask_levels; so a security added into a
\* slot a removed security used starts with all-zero level arrays.
C32_SnapshotPaddingZero ==
  \A id \in SeqIds :
    Contains(securities_, id) =>
      LET s == GetSecuritySnapshot(securities_, id) IN
        \A k \in LevelIdx :
          /\ k >= s.num_bid_levels => s.bids[k] = ZeroLevel
          /\ k >= s.num_ask_levels => s.asks[k] = ZeroLevel

(***************************************************************************)
(* Claims about the feed under fair scheduling                             *)
(***************************************************************************)

\* stop() found the feed running and is about to clear running_
StopBegun == ctl.pc = "stop_store"

\* that stop() has returned, with both threads joined
StopReturned ==
  /\ ctl.pc = "ret"
  /\ ctl.op = "stop"
  /\ ctl.ret
  /\ cthr.pc = "off"
  /\ pthr.pc = "off"

\* C33: once stop() is called on a running feed, under fair scheduling the
\* consumer loop sees running = false and exits, the source thread is
\* joined and stop() returns, whatever the ring holds at that moment and
\* however many messages the source is delivering.
C33_StopTerminates == StopBegun ~> StopReturned

\* stop() has returned with both threads joined while the ring was full
C33_Witness == StopReturned /\ tail - head = capacity

\* the most messages the ring is ever handed
MostPushed == messages_per_burst * MaxPasses

\* the slot of security id shows message m
Reflects(st, m) ==
  LET slot == st[FindSecurityData(st, m.security_id)] IN
    /\ slot.last_update_ns = m.timestamp_ns
    /\ slot.best_bid = m.bids[0].price
    /\ slot.best_ask = m.asks[0].price
    /\ slot.bids.levels = m.bids
    /\ slot.asks.levels = m.asks

\* the consumer handed one more message to update_from_l2
Applies == Len(issued') = Len(issued) + 1

\* C34: while the feed stays running, under fair scheduling every message
\* try_push accepted is eventually popped by the consumer and passed to
\* update_from_l2, in the order pushed; and the store shows a message once
\* it was passed for a security the store holds, so the store of a security
\* that stays subscribed ends up showing the last message enqueued for it.
C34_PushedIsEventuallyApplied ==
  /\ [](/\ Len(issued) <= Len(pushed)
        /\ \A k \in 1 .. Len(issued) : issued[k] = pushed[k])
  /\ [][(Applies /\ Contains(securities_, cons.out.security_id))
          => Reflects(securities_', cons.out)]_vars
  /\ \A n \in 1 .. MostPushed :
       (Len(pushed) >= n) ~> (Len(issued) >= n \/ ~running_)

\* the feed is running and the store shows the last of two or more messages
\* that went through the ring
C34_Witness ==
  /\ running_
  /\ Len(pushed) >= 2
  /\ Len(issued) = Len(pushed)
  /\ Contains(securities_, FeedId)
  /\ Reflects(securities_, pushed[Len(pushed)])

(***************************************************************************)
(* Claims about the statistics of the feed                                 *)
(***************************************************************************)

\* C35: with statistics enabled, messages_consumed never exceeds
\* messages_produced in any reachable state of the feed, across start, stop
\* and restart and however the callback and the consumer loop interleave.
C35_ConsumedAtMostProduced ==
  stats_.messages_consumed <= stats_.messages_produced

\* the consumer handed a message to update_from_l2 and the store had no
\* active slot for it
Discards == Applies /\ ~Contains(securities_, cons.out.security_id)

\* the counters the consumer keeps for the messages it applied
AppliedCounters(s) ==
  <<s.messages_consumed, s.total_latency_ns, s.max_latency_ns>>

\* the consumer is between an applied update and the last of its counters
Counting == cthr.pc \in {"c_consumed", "c_latency", "c_max_load", "c_max_cas"}

\* C36: the consumer increments messages_consumed and accumulates latency
\* only for a popped message update_from_l2 reported as applied; a popped
\* message whose security is not active in the store is discarded with
\* messages_consumed, total_latency_ns and max_latency_ns unchanged; so
\* messages_consumed is the number of updates the feed applied to the store
\* since the last reset (once the consumer has counted the update it is at).
C36_ConsumedCountsAppliedUpdates ==
  /\ [](cthr.applied = stats_.messages_consumed
                         + (IF cthr.pc = "c_consumed" THEN 1 ELSE 0))
  /\ [][Discards => (stats_' = stats_ /\ cthr'.pc = "c_check")]_vars
  /\ [][AppliedCounters(stats_') # AppliedCounters(stats_)
          => (Counting \/ ctl.pc = "start_reset")]_vars

\* the consumer counted an applied update and has discarded a message since
C36_Witness ==
  /\ cthr.pc = "c_check"
  /\ stats_.messages_consumed >= 1
  /\ Len(issued) > stats_.messages_consumed
  /\ ~Contains(securities_, issued[Len(issued)].security_id)

\* the consumer is in the loop that updates max_latency_ns
InMaxLoop == cthr.pc \in {"c_max_load", "c_max_cas"}

\* C37: with statistics enabled and one consumer, after each applied message
\* with latency L the loop that updates the maximum terminates with
\* max_latency_ns >= L; outside that loop max_latency_ns is the largest
\* latency of the messages applied since the last reset, and it never
\* decreases between resets.
C37_MaxLatencyIsMaximum ==
  /\ [](~InMaxLoop => stats_.max_latency_ns = cthr.worst)
  /\ [][(InMaxLoop /\ cthr'.pc = "c_check")
          => stats_'.max_latency_ns >= cthr.latency]_vars
  /\ [][stats_'.max_latency_ns >= stats_.max_latency_ns
          \/ ctl.pc = "start_reset"]_vars
  /\ InMaxLoop ~> (cthr.pc = "c_check")

\* the consumer finished the loop for a message whose latency is below the
\* maximum of the messages before it
C37_Witness ==
  /\ cthr.pc = "c_check"
  /\ stats_.messages_consumed >= 2
  /\ cthr.latency > 0
  /\ cthr.latency < stats_.max_latency_ns

(***************************************************************************)
(* Claims about a stopped feed                                             *)
(***************************************************************************)

\* the feed is not running and neither thread exists
Quiescent == ~running_ /\ cthr.pc = "off" /\ pthr.pc = "off"

\* the owner is inside a start() that found the feed stopped
Starting ==
  ctl.pc \in {"start_reset", "start_provider", "start_store", "start_spawn"}

\* the callback finds the feed not running and returns
CallbackDrops == pthr.pc = "callback" /\ ~running_ /\ pthr'.pc # pthr.pc

\* C38: once a stop() that found the feed running has returned, no update
\* is applied to the store, nothing is pushed to or popped from the ring and
\* no statistics counter changes until the next start(); and a callback
\* delivered while the feed is not running is dropped without touching the
\* ring or the counters.
C38_NothingMovesAfterStop ==
  /\ []((ctl.op = "stop" /\ ctl.pc = "ret" /\ ctl.ret) => Quiescent)
  /\ [][(Quiescent /\ ~Starting)
          => /\ Quiescent'
             /\ RingUntouched
             /\ prod' = prod
             /\ cons' = cons
             /\ Len(pushed') = Len(pushed)
             /\ Len(popped') = Len(popped)
             /\ Len(issued') = Len(issued)
             /\ stats_' = stats_]_vars
  /\ [][CallbackDrops
          => /\ RingUntouched
             /\ prod' = prod
             /\ Len(pushed') = Len(pushed)
             /\ stats_' = stats_]_vars

\* stop() has returned on a feed that had produced messages, some of them
\* still in the ring, and the source's last callbacks were dropped
C38_Witness ==
  /\ ctl.op = "stop" /\ ctl.pc = "ret" /\ ctl.ret
  /\ head # tail
  /\ stats_.messages_produced > 0
  /\ pthr.generated > handled

(***************************************************************************)
(* Claims about subscriptions made through the feed only                   *)
(***************************************************************************)

\* the owner is in no call of the feed, or has just been returned to
Completed == ctl.pc \in {"idle", "ret"}

\* C39: from an empty store and an empty source that only the feed
\* modifies, after any sequence of completed subscribe and unsubscribe calls
\* of the feed the active ids of the store are the ids subscribed on the
\* source (and subscribe never has to roll the store back).
C39_StoreMatchesSource ==
  /\ Completed => Members(securities_) = Members(provider_.securities_)
  /\ ctl.pc # "subscribe_rollback"

\* a subscribe was refused because both are full, after two that succeeded
C39_Witness ==
  /\ ctl.pc = "ret"
  /\ ctl.op = "subscribe"
  /\ ~ctl.ret
  /\ ctl.id \notin Members(securities_)
  /\ Cardinality(Members(securities_)) = MAX_SECURITIES
  /\ Members(securities_) = Members(provider_.securities_)

(***************************************************************************)
(* Claims about start() called from two threads                            *)
(***************************************************************************)

\* caller t is past the check of provider_->start(), about to start the
\* source, or has started it and goes on to spawn a consumer
StartsSource(t) ==
  \/ thr[t].pc \in {"ps_store", "ps_spawn", "fs_store", "fs_spawn"}
  \/ thr[t].pc = "ret" /\ thr[t].op = "start" /\ thr[t].ret

\* C40: when two threads call start() at the same time on a stopped feed,
\* exactly one call returns true, the source is started once and exactly
\* one consumer thread is spawned: no two calls both go on to start the
\* source, and no thread object is assigned while it holds a thread.
C40_OneStartWins ==
  /\ \A t \in Callers : thr[t].pc # "terminated"
  /\ Cardinality({t \in Callers : StartsSource(t)}) <= 1

====
